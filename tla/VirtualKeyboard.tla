--------------------------- MODULE VirtualKeyboard ---------------------------
(***************************************************************************)
(* Drivers/Keyboard/VirtualKeyboardDxe: keys of the platform's virtual     *)
(* keyboard, polled by a timer at TPL_NOTIFY and by every read, into a     *)
(* queue for readers and a queue for the functions registered for a key.   *)
(* These run from an event at TPL_CALLBACK that walks the list of          *)
(* registrations with the TPL lowered: the timer interrupts it, and a      *)
(* function may read, register and unregister, also itself.  A node that   *)
(* is unregistered is taken off the list but never freed.                  *)
(***************************************************************************)
EXTENDS Integers, Sequences, FiniteSets, SequencesExt

CONSTANTS
  QUEUE_MAX_COUNT,
  Registrations,  \* bound: what the clients register
  Nodes,          \* bound: registrations there can be
  Bounds          \* bounds: keys pressed (presses), calls of the clients (calls),
                  \* calls of the binding (starts)

VARIABLES
  drv,    \* the queues, the list, the event
  dev,    \* the key the platform has latched, NoKey: none
  call,   \* KeyNotifyProcessHandler
  hist    \* history

vars == <<drv, dev, call, hist>>

Key == {"f", "g"}
Shift == {"none", "valid", "control"}    \* KeyShiftState of a registration
Function == {"F", "G"}
NoKey == [id |-> 0, key |-> "f"]

ConstantsOK ==
  /\ QUEUE_MAX_COUNT \in Nat \ {0, 1} /\ Nodes \in Nat
  /\ Registrations \subseteq [key : Key, shift : Shift, fn : Function]
  /\ Bounds \subseteq [presses : Nat, calls : Nat, starts : Nat]

EmptyQueue == [front |-> 0, rear |-> 0,
               buf |-> [i \in 0 .. QUEUE_MAX_COUNT - 1 |-> NoKey]]

\* What Start opens, in this order.
Event == {"WaitForKey", "WaitForKeyEx", "Timer", "KeyNotifyProcess"}

Init ==
  /\ drv = [Queue |-> EmptyQueue, QueueForNotify |-> EmptyQueue,
            node |-> <<>>,             \* every registration that was allocated
            NotifyList |-> <<>>,       \* those on the list, in order
            forward |-> <<>>,          \* the ForwardLink of those taken off
            event |-> FALSE,           \* KeyNotifyProcessEvent is signalled
            open |-> {},               \* events of private data that there are
            twin |-> {},               \* events of a second one, being started
            installed |-> FALSE]
  /\ dev = NoKey
  /\ call = [pc |-> "idle", key |-> NoKey, link |-> 0, entry |-> 0]
  /\ \E max \in Bounds :
       hist = [max |-> max, presses |-> 0, calls |-> 0, starts |-> 0,
               astray |-> {},          \* keys polled by the second one
               taken |-> <<>>,         \* keys the reader's queue took
               read |-> <<>>,          \* keys read
               entries |-> 0,          \* keys taken off the queue for functions
               walk |-> {},            \* on the list since then
               called |-> {}]          \* <<registration, entry>>

(* ------------------------------- queues --------------------------------- *)

Step(i) == (i + 1) % QUEUE_MAX_COUNT
Full(q) == Step(q.rear) = q.front
Empty(q) == q.front = q.rear
Enqueue(q, key) ==
  IF Full(q) THEN q ELSE [q EXCEPT !.buf[q.rear] = key, !.rear = Step(@)]
Dequeued(q) == q.buf[q.front]
Dequeue(q) == [q EXCEPT !.front = Step(@)]
Contents(q) ==
  [i \in 1 .. (q.rear - q.front + QUEUE_MAX_COUNT) % QUEUE_MAX_COUNT |->
     q.buf[(q.front + i - 1) % QUEUE_MAX_COUNT]]

\* A registration without a shift state matches any.
IsKeyRegistered(reg, key, shift) ==
  reg.key = key /\ reg.shift \in {"none", shift}

(* -------------------------------- polling ------------------------------- *)

Registered(d, key) ==
  SelectSeq(d.NotifyList, LAMBDA n : IsKeyRegistered(d.node[n], key, "valid"))

\* VirtualKeyboardTimerHandler: the key goes to the queue for functions
\* once for each registration that matches, and to the reader's queue;
\* what does not fit is lost.
VirtualKeyboardTimerHandler ==
  LET regs == Registered(drv, dev.key)
  IN IF dev = NoKey THEN drv
     ELSE [drv EXCEPT !.Queue = Enqueue(@, dev),
                      !.QueueForNotify = FoldLeft(LAMBDA q, n : Enqueue(q, dev), @, regs),
                      !.event = @ \/ regs # <<>>]
Taken == IF dev = NoKey \/ Full(drv.Queue) THEN hist.taken
         ELSE Append(hist.taken, dev)

\* The timer, and VirtualKeyboardWaitForKey.
Timer ==
  /\ dev # NoKey /\ "Timer" \in drv.open
  /\ drv' = VirtualKeyboardTimerHandler
  /\ dev' = NoKey
  /\ hist' = [hist EXCEPT !.taken = Taken]
  /\ UNCHANGED call

(* ---------------------------- the clients' calls ------------------------ *)

\* Start is under way, or a second one.
Starting == drv.twin # {} \/ (drv.open # {} /\ ~drv.installed)

\* By an application, or by a function that was called.
Client ==
  /\ call.pc = "fn" \/ (call.pc = "idle" /\ drv.installed /\ ~Starting)
  /\ hist.calls < hist.max.calls
Counted == [hist EXCEPT !.calls = @ + 1]

\* For both protocols: a polled key comes without a control key, so none
\* is turned into a control character.
KeyboardReadKeyStrokeWorker ==
  /\ Client
  /\ LET d == VirtualKeyboardTimerHandler
     IN IF Empty(d.Queue)
        THEN drv' = d /\ hist' = [Counted EXCEPT !.taken = Taken]
        ELSE /\ drv' = [d EXCEPT !.Queue = Dequeue(@)]
             /\ hist' = [Counted EXCEPT !.taken = Taken,
                           !.read = Append(@, Dequeued(d.Queue))]
  /\ dev' = NoKey
  /\ UNCHANGED call

\* A registration of the same function that covers the key is shared.
Same(reg) ==
  {i \in DOMAIN drv.NotifyList :
     LET old == drv.node[drv.NotifyList[i]]
     IN IsKeyRegistered(old, reg.key, reg.shift) /\ old.fn = reg.fn}
VirtualKeyboardRegisterKeyNotify(reg) ==
  /\ Client /\ Len(drv.node) < Nodes
  /\ IF Same(reg) # {} THEN UNCHANGED drv
     ELSE LET n == Len(drv.node) + 1
          IN drv' = [drv EXCEPT !.node = Append(@, reg), !.forward = Append(@, 0),
                                !.NotifyList = Append(@, n)]
  /\ hist' = [Counted EXCEPT !.walk = @ \cup {Len(drv'.node)}]
  /\ UNCHANGED <<dev, call>>

\* The node behind n on the list, 0: the head.
NextOn(n) ==
  LET i == CHOOSE i \in DOMAIN drv.NotifyList : drv.NotifyList[i] = n
  IN IF i = Len(drv.NotifyList) THEN 0 ELSE drv.NotifyList[i + 1]

VirtualKeyboardUnregisterKeyNotify(n) ==
  /\ Client /\ n \in ToSet(drv.NotifyList)
  /\ drv' = [drv EXCEPT !.NotifyList = SelectSeq(@, LAMBDA m : m # n),
                        !.forward[n] = NextOn(n)]
  /\ hist' = Counted
  /\ UNCHANGED <<dev, call>>

\* Reset asks the platform only: what has been polled stays in the queues.
VirtualKeyboardReset ==
  /\ Client /\ hist' = Counted
  /\ UNCHANGED <<drv, dev, call>>

(* ------------------------------ the binding ----------------------------- *)

\* VirtualKeyboardDriverBindingStart up to the protocols: the timer of the
\* new private data ticks before the event for the functions exists.
\* Start closes the platform's protocol even when it succeeds, so the
\* driver can be started a second time on the same handle.
Events(before) == CASE before = "Timer" -> {"WaitForKey", "WaitForKeyEx"}
                    [] before = "KeyNotifyProcess" -> Event \ {"KeyNotifyProcess"}
                    [] before = "install" -> Event

StartTimer ==
  /\ ~Starting /\ call.pc = "idle" /\ hist.starts < hist.max.starts
  /\ drv' = IF drv.installed THEN [drv EXCEPT !.twin = Events("KeyNotifyProcess")]
            ELSE [drv EXCEPT !.open = Events("KeyNotifyProcess"), !.node = <<>>,
                             !.NotifyList = <<>>, !.forward = <<>>, !.event = FALSE,
                             !.Queue = EmptyQueue, !.QueueForNotify = EmptyQueue]
  /\ hist' = [hist EXCEPT !.starts = @ + 1, !.taken = IF drv.installed THEN @ ELSE <<>>,
                          !.read = IF drv.installed THEN @ ELSE <<>>]
  /\ UNCHANGED <<dev, call>>

\* The last event is made, or is not, and the protocols are installed, which
\* the handle refuses when it has them; after an error everything goes.
StartEnd ==
  /\ Starting
  /\ IF drv.twin # {} THEN drv' = [drv EXCEPT !.twin = {}]
     ELSE \E ok \in BOOLEAN :
            drv' = [drv EXCEPT !.open = IF ok THEN Events("install") ELSE {},
                               !.installed = ok]
  /\ UNCHANGED <<dev, call, hist>>

\* The second timer takes a key into a queue that nobody reads.
TwinTimer ==
  /\ dev # NoKey /\ "Timer" \in drv.twin
  /\ dev' = NoKey
  /\ hist' = [hist EXCEPT !.astray = @ \cup {dev}]
  /\ UNCHANGED <<drv, call>>

(* --------------------------- the notifications -------------------------- *)

\* KeyNotifyProcessHandler, with the TPL raised only to dequeue.
Enter ==
  /\ call.pc = "idle" /\ drv.event
  /\ call' = [call EXCEPT !.pc = "dequeue"]
  /\ drv' = [drv EXCEPT !.event = FALSE]
  /\ UNCHANGED <<dev, hist>>

FirstNode == IF drv.NotifyList = <<>> THEN 0 ELSE drv.NotifyList[1]
NextNode(n) == IF n \in ToSet(drv.NotifyList) THEN NextOn(n) ELSE drv.forward[n]

TakeKey ==
  /\ call.pc = "dequeue"
  /\ IF Empty(drv.QueueForNotify)
     THEN /\ call' = [call EXCEPT !.pc = "idle"]
          /\ UNCHANGED <<drv, hist>>
     ELSE /\ call' = [pc |-> "walk", key |-> Dequeued(drv.QueueForNotify),
                      link |-> FirstNode, entry |-> hist.entries + 1]
          /\ drv' = [drv EXCEPT !.QueueForNotify = Dequeue(@)]
          /\ hist' = [hist EXCEPT !.entries = @ + 1, !.walk = ToSet(drv.NotifyList)]
  /\ UNCHANGED dev

\* Slip: one key for each time the event is signalled.
WalkOnce ==
  /\ call.pc = "walk"
  /\ call' = CASE call.link = 0 -> [call EXCEPT !.pc = "idle"]
               [] call.link # 0 /\ IsKeyRegistered(drv.node[call.link], call.key.key, "valid") ->
                    [call EXCEPT !.pc = "fn"]
               [] OTHER -> [call EXCEPT !.link = NextNode(@)]
  /\ UNCHANGED <<drv, dev, hist>>

Walk ==
  /\ call.pc = "walk"
  /\ call' = CASE call.link = 0 -> [call EXCEPT !.pc = "dequeue"]
               [] call.link # 0 /\ IsKeyRegistered(drv.node[call.link], call.key.key, "valid") ->
                    [call EXCEPT !.pc = "fn"]
               [] OTHER -> [call EXCEPT !.link = NextNode(@)]
  /\ UNCHANGED <<drv, dev, hist>>

\* The function returns; it may have made calls of its own.
Return ==
  /\ call.pc = "fn"
  /\ call' = [call EXCEPT !.pc = "walk", !.link = NextNode(@)]
  /\ hist' = [hist EXCEPT !.called = @ \cup {<<call.link, call.entry>>}]
  /\ UNCHANGED <<drv, dev>>

(* ---------------------------- specification ----------------------------- *)

\* The user, through the platform (Query and Clear).
Press(k) ==
  /\ dev = NoKey /\ hist.presses < hist.max.presses
  /\ dev' = [id |-> hist.presses + 1, key |-> k]
  /\ hist' = [hist EXCEPT !.presses = @ + 1]
  /\ UNCHANGED <<drv, call>>

Work == Enter \/ TakeKey \/ Walk \/ Return
Next ==
  \/ Work \/ Timer \/ KeyboardReadKeyStrokeWorker \/ VirtualKeyboardReset
  \/ StartTimer \/ StartEnd \/ TwinTimer
  \/ \E k \in Key : Press(k)
  \/ \E reg \in Registrations : VirtualKeyboardRegisterKeyNotify(reg)
  \/ \E n \in 1 .. Nodes : VirtualKeyboardUnregisterKeyNotify(n)

Spec == Init /\ [][Next]_vars /\ WF_vars(Work) /\ WF_vars(Timer) /\ WF_vars(StartEnd)

(* ------------------------------ properties ------------------------------ *)

\* Readers get the keys the queue took, each once, in order.
KeysInOrder == hist.read \o Contents(drv.Queue) = hist.taken

\* A function is called for its own key, once for each entry of the key in
\* the queue, and only if it was registered when the entry was taken, or
\* since: one that is called after it was unregistered was unregistered
\* during this walk.
NotifiedTruly ==
  call.pc = "fn" =>
    /\ IsKeyRegistered(drv.node[call.link], call.key.key, "valid")
    /\ <<call.link, call.entry>> \notin hist.called
    /\ call.link \in hist.walk

\* While the protocols are there so are all events, and the functions'
\* event whenever it is signalled; no timer outlives a start that failed;
\* and no key is both read and astray.
EventsLive ==
  /\ drv.installed => drv.open = Event
  /\ ~drv.installed /\ ~Starting => drv.open = {}
  /\ drv.event => "KeyNotifyProcess" \in drv.open
  /\ hist.astray \cap ToSet(hist.taken) = {}

\* A key that waits for functions is taken, a key that is pressed is polled.
Waiting == ~Empty(drv.QueueForNotify) \/ (dev # NoKey /\ drv.installed)
KeysMove == Waiting ~> ~Waiting

=============================================================================
