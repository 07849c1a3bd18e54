-------------------------------- MODULE SasV1 --------------------------------
\* Chips/Hisilicon/Drivers/SasV1Dxe: a SCSI command is put on one of the
\* delivery queues and its completion polled for.  The routine does not
\* raise the task priority, so a second call (from a timer's callback) can
\* run to its end at any point of the first.
EXTENDS Integers, Sequences, FiniteSets

CONSTANTS
  QUEUE_CNT, QUEUE_SLOTS,   \* 32 queues of 256 slots in the code
  PHY_CNT,                  \* 8 in the code
  MAX_TARGET_ID,
  Bounds                    \* bounds: starts, calls, nested, maps (failing); ups: the
                            \* sets of phys that may have come up when start looks

VARIABLES
  drv,    \* the routine's frames, the slots and where the next queue is
  dev,    \* queue registers, headers in memory, completions
  hist    \* history

vars == <<drv, dev, hist>>

ConstantsOK ==
  /\ QUEUE_CNT \in Nat \ {0} /\ QUEUE_SLOTS \in Nat \ {0, 1}
  /\ PHY_CNT \in Nat \ {0} /\ MAX_TARGET_ID \in Nat
  /\ \A m \in Bounds : /\ {m.starts, m.calls, m.nested, m.maps} \subseteq Nat
                      /\ m.ups \subseteq SUBSET (0 .. PHY_CNT - 1)

Queue == 0 .. QUEUE_CNT - 1
Slot == 0 .. QUEUE_SLOTS - 1
Nxt(i) == (i + 1) % QUEUE_SLOTS

NoCommand == [id |-> 0, data |-> FALSE, sg |-> 0]
\* bad: an error record without a response.
NoCompletion == [id |-> 0, bad |-> FALSE]

(* ------------------------------ the device ----------------------------- *)

\* What it does with the next header of a queue, when the phy that the
\* driver took the target's address from is up: external.
Execute ==
  \E q \in Queue :
    /\ dev.itct \in dev.up /\ dev.dr[q] # dev.dw[q]
    /\ LET c == dev.hdr[q][dev.dr[q]] IN
       \E bad \in BOOLEAN :
         /\ dev' = [dev EXCEPT
              !.dr[q] = Nxt(@), !.cw[q] = Nxt(@), !.int = @ \cup {q},
              !.complete[q][dev.cw[q]] = [id |-> c.id, bad |-> bad]]
         /\ hist' = [hist EXCEPT !.executed = @ \cup {c.id},
              !.strayData = @ \/ (c.data /\ c.sg \notin hist.mapped)]
  /\ UNCHANGED drv

(* ------------------------------ prepare_cmd ---------------------------- *)

\* The running call is the last one: it was called by a callback.
Running == drv.calls # <<>>
Top == Len(drv.calls)
c1 == drv.calls[Top]
At(pc) == Running /\ c1.pc = pc

Frame(id, data) ==
  [pc |-> "pick", id |-> id, data |-> data, queue |-> drv.queue, first |-> drv.queue,
   w |-> 0, status |-> "SUCCESS"]

NoSlot ==
  \A q \in Queue : <<q, dev.dw[q]>> \in drv.used \/ dev.dr[q] = Nxt(dev.dw[q])
Return(status) ==
  [hist EXCEPT !.executed = @ \ {c1.id},
     !.untrue = @ \/ (c1.id \notin hist.executed
                        /\ (status = "SUCCESS" \/ (status = "NOT_READY" /\ ~NoSlot)))]

SasV1ExtScsiPassThruFunction ==
  /\ drv.bound /\ hist.walked /\ hist.calls < hist.max.calls
  /\ Running => Top <= hist.max.nested
  /\ \E data \in BOOLEAN :
       drv' = [drv EXCEPT !.calls = Append(@, Frame(hist.calls + 1, data))]
  /\ hist' = [hist EXCEPT !.calls = @ + 1,
       !.overlap = @ \/ \E i \in 1 .. Top : drv.calls[i].pc \in {"take", "ring"}]
  /\ UNCHANGED dev

\* Slip: the queues are tried until one has a free slot.
FindSlotOrWait ==
  /\ At("pick")
  /\ LET q == c1.queue
         w == dev.dw[q]
         busy == <<q, w>> \in drv.used \/ dev.dr[q] = Nxt(w)
     IN drv' = [drv EXCEPT !.calls[Top] =
          IF busy THEN [@ EXCEPT !.queue = (q + 1) % QUEUE_CNT]
          ELSE [@ EXCEPT !.pc = "take", !.w = w]]
  /\ UNCHANGED <<dev, hist>>

\* A queue whose next slot is free; all of them are tried once.
FindSlot ==
  /\ At("pick")
  /\ LET q == c1.queue
         w == dev.dw[q]
         busy == <<q, w>> \in drv.used \/ dev.dr[q] = Nxt(w)
         next == (q + 1) % QUEUE_CNT
     IN IF ~busy
          THEN /\ drv' = [drv EXCEPT !.calls[Top] = [@ EXCEPT !.pc = "take", !.w = w]]
               /\ UNCHANGED hist
        ELSE IF next # drv.queue
          THEN /\ drv' = [drv EXCEPT !.calls[Top].queue = next]
               /\ UNCHANGED hist
        ELSE /\ drv' = [drv EXCEPT !.calls = SubSeq(@, 1, Top - 1)]
             /\ hist' = Return("NOT_READY")
  /\ UNCHANGED dev

\* Slip: the slot is given back to the pool before the command is done.
TakeSlotUnmarked ==
  /\ At("take")
  /\ drv' = [drv EXCEPT !.calls[Top].pc = "ring"]
  /\ dev' = [dev EXCEPT !.hdr[c1.queue][c1.w] =
       [id |-> c1.id, data |-> c1.data, sg |-> IF c1.data THEN c1.id ELSE @.sg]]
  /\ hist' = [hist EXCEPT !.mapped = IF c1.data THEN @ \cup {c1.id} ELSE @]

\* The slot is taken and its header written; without data the header keeps
\* the scatter list of the command before.  When the buffer cannot be
\* mapped, the routine returns and the slot stays used.
TakeSlot ==
  /\ At("take")
  /\ LET q == c1.queue
         taken == [drv EXCEPT !.used = @ \cup {<<q, c1.w>>},
                              !.queue = (q + 1) % QUEUE_CNT]
     IN \/ /\ drv' = [taken EXCEPT !.calls[Top].pc = "ring"]
           /\ dev' = [dev EXCEPT !.hdr[q][c1.w] =
                [id |-> c1.id, data |-> c1.data, sg |-> IF c1.data THEN c1.id ELSE @.sg]]
           /\ hist' = [hist EXCEPT !.mapped = IF c1.data THEN @ \cup {c1.id} ELSE @]
        \/ /\ c1.data /\ hist.maps < hist.max.maps
           /\ drv' = [taken EXCEPT !.calls = SubSeq(@, 1, Top - 1)]
           /\ hist' = [Return("ERROR") EXCEPT !.maps = @ + 1,
                         !.lost = @ \cup {<<q, c1.w>>}]
           /\ UNCHANGED dev

\* The write pointer; from here on "w" is one more, which may be QUEUE_SLOTS.
RingDoorbell ==
  /\ At("ring")
  /\ dev' = [dev EXCEPT !.dw[c1.queue] = Nxt(c1.w)]
  /\ drv' = [drv EXCEPT !.calls[Top] = [@ EXCEPT !.pc = "wait", !.w = @ + 1]]
  /\ hist' = [hist EXCEPT !.overlap = @ \/ \E i \in 1 .. Top - 1 :
       drv.calls[i].pc = "wait" /\ drv.calls[i].queue = c1.queue]

\* The completion of the queue, whichever it is, ends the wait; the read
\* pointer becomes what the write pointer of the delivery queue was set
\* to, but for the remainder.
PollCompletion ==
  /\ At("wait")
  /\ c1.queue \in dev.int
  /\ LET q == c1.queue
         rd == dev.cr[q]
         seen == IF rd \in Slot THEN {dev.complete[q][rd]}
                 ELSE [id : {0}, bad : BOOLEAN]
     IN \E d \in seen :
          /\ hist' = [Return(IF d.bad THEN "NOT_READY" ELSE "SUCCESS")
               EXCEPT !.mapped = @ \ {c1.id},
                      !.foreign = @ \/ d.id # c1.id,
                      !.beyond = @ \/ rd \notin Slot]
          /\ dev' = [dev EXCEPT !.int = @ \ {q},
                       !.cr[q] = IF dev.wraps THEN c1.w % QUEUE_SLOTS ELSE c1.w]
          /\ drv' = [drv EXCEPT !.used = @ \ {<<q, (c1.w - 1)>>},
                                !.calls = SubSeq(@, 1, Top - 1)]

\* SasV1ExtScsiPassThruGetNextTargetLun: a walk over the targets, whose
\* place the driver keeps, not the caller.  The bus driver walks first.
GetNextTargetLun ==
  /\ drv.bound /\ ~hist.walked
  /\ IF drv.target = MAX_TARGET_ID
       THEN /\ hist' = [hist EXCEPT !.walked = TRUE]
            /\ UNCHANGED drv
       ELSE LET t == IF drv.target = -1 THEN 0 ELSE drv.LatestTargetId + 1 IN
            /\ drv' = [drv EXCEPT !.target = t, !.LatestTargetId = t]
            /\ hist' = [hist EXCEPT !.targets = Append(@, t)]
  /\ UNCHANGED dev

(* ------------------------------ the binding ---------------------------- *)

Unbound == [bound |-> FALSE, calls |-> <<>>, used |-> {}, queue |-> 0, target |-> -1,
            LatestTargetId |-> 0]

\* The controller as plat->Init leaves it.  "wraps": the completion read
\* pointer holds no more bits than the depth needs, or does.
SasInit(wraps) ==
  [dr |-> [q \in Queue |-> 0], dw |-> [q \in Queue |-> 0],
   cw |-> [q \in Queue |-> 0], cr |-> [q \in Queue |-> 0], int |-> {},
   hdr |-> [q \in Queue |-> [s \in Slot |-> NoCommand]],
   complete |-> [q \in Queue |-> [s \in Slot |-> NoCompletion]],
   up |-> {}, seen |-> {}, itct |-> 0, wraps |-> wraps]

\* The phy that is used: the last one up; phy 0 when none is.
PhyOf(up) == IF up = {} THEN 0 ELSE CHOOSE p \in up : \A r \in up : r <= p

\* SasDriverBindingStart, sas_init and hisi_sas_v1_init: buffers and slots
\* zeroed, the controller and its queues set, and the phys looked at once,
\* 100 ms later.  The target's address is what the chosen phy received,
\* and its "phyup" is cleared.
SasDriverBindingStart ==
  /\ ~drv.bound /\ hist.starts < hist.max.starts
  /\ drv' = [Unbound EXCEPT !.bound = TRUE]
  /\ \E up \in hist.max.ups :
       dev' = [SasInit(dev.wraps) EXCEPT
                 !.up = up, !.seen = up \ {PhyOf(up)}, !.itct = PhyOf(up)]
  /\ hist' = [hist EXCEPT !.starts = @ + 1, !.mapped = {}, !.executed = {},
                          !.targets = <<>>, !.walked = FALSE]

\* The buffers are freed while the controller goes on; it is not reset.
SasDriverBindingStop ==
  /\ drv.bound /\ ~Running /\ hist.max.starts > 1
  /\ drv' = Unbound /\ hist' = [hist EXCEPT !.lost = {}]
  /\ UNCHANGED dev

Binding == SasDriverBindingStart \/ SasDriverBindingStop

Init ==
  /\ drv = Unbound
  /\ \E wraps \in BOOLEAN : dev = SasInit(wraps)
  /\ \E max \in Bounds :
       hist = [max |-> max, starts |-> 0, calls |-> 0, maps |-> 0, mapped |-> {},
               executed |-> {}, lost |-> {}, targets |-> <<>>, walked |-> FALSE,
               overlap |-> FALSE,     \* a second call got in the way of the first
               untrue |-> FALSE,      \* an answer that the command did not earn
               foreign |-> FALSE,     \* a completion of another command was taken
               beyond |-> FALSE,      \* a completion read beyond the queue
               strayData |-> FALSE]   \* data moved to a buffer not mapped

Work == FindSlot \/ TakeSlot \/ RingDoorbell \/ PollCompletion
Next == Work \/ Binding \/ SasV1ExtScsiPassThruFunction \/ Execute \/ GetNextTargetLun

Spec == Init /\ [][Next]_vars /\ WF_vars(Work) /\ WF_vars(Execute)

(* ------------------------------ properties ----------------------------- *)

\* A slot is marked while its command is on the queue and, but for those a
\* failed mapping has left marked, at no other time; no two calls share
\* one; the device moves no data to a buffer that is not mapped.  Unless a
\* second call came between the choice of a slot and the doorbell, or on
\* the queue the first one waits for.
SlotsInStep ==
  ~hist.overlap =>
    /\ drv.used = hist.lost \cup
         {<<drv.calls[i].queue, drv.calls[i].w - (IF drv.calls[i].pc = "wait" THEN 1 ELSE 0)>>
            : i \in {j \in 1 .. Top : drv.calls[j].pc \in {"ring", "wait"}}}
    /\ ~hist.strayData

\* An answer is about the call's own command, which the device has
\* executed, and refusals for want of a slot come when there is none;
\* unless calls overlap, or the read pointer has gone beyond the queue
\* (SasV1Dxe.c:449).
AnswersAreTrue ==
  /\ hist.foreign => hist.overlap \/ hist.beyond
  /\ hist.beyond => ~dev.wraps
  /\ hist.untrue => hist.overlap
  /\ hist.walked => hist.targets = [i \in 1 .. MAX_TARGET_ID + 1 |-> i - 1]

\* The memory that the controller reads commands from and answers into is
\* given back only with nothing on its queues (SasV1Dxe.c:998); and of the
\* phys that had come up one is used, and only that one's event cleared.
NothingLeftBehind ==
  /\ ~drv.bound /\ ~hist.overlap =>
       (\A q \in Queue : dev.dr[q] = dev.dw[q]) /\ dev.int = {}
  /\ drv.bound /\ dev.up # {} => dev.itct \in dev.up /\ dev.seen = dev.up \ {dev.itct}

\* A call ends, unless another overlapped it (no timeout, SasV1Dxe.c:427) or
\* no phy had come up when the driver was started.
CallsEnd == Running ~> (~Running \/ hist.overlap \/ dev.up = {})

=============================================================================
