--------------------------- MODULE AsyncPassThru ---------------------------
\* What EFI_SD_MMC_PASS_THRU promises to its asynchronous clients, whatever
\* host controller is below: a request that was accepted is answered once,
\* in the order of acceptance, by its own event; a flush (device reset,
\* card removal) answers all that are pending, with a failure.
EXTENDS Sequences

CONSTANTS Request, Answer, Failed   \* Failed: the answers a flush may give

VARIABLES
  pending,   \* accepted requests not answered yet, oldest first
  answers    \* <<request, answer>> in the order the events were signalled

aVars == <<pending, answers>>

Requests(s) == {s[i] : i \in DOMAIN s}
Asked == Requests(pending) \cup {p[1] : p \in Requests(answers)}

AInit == pending = <<>> /\ answers = <<>>

Accept(r) ==
  /\ r \notin Asked
  /\ pending' = Append(pending, r) /\ UNCHANGED answers

Reply(a) ==
  /\ pending # <<>>
  /\ pending' = Tail(pending)
  /\ answers' = Append(answers, <<Head(pending), a>>)

Flush(a) ==
  /\ pending' = <<>>
  /\ answers' = answers \o [i \in DOMAIN pending |-> <<pending[i], a>>]

Answering == (\E a \in Answer : Reply(a)) \/ (\E a \in Failed : Flush(a))
ANext == (\E r \in Request : Accept(r)) \/ Answering

ASpec == AInit /\ [][ANext]_aVars
AFairSpec == ASpec /\ WF_aVars(Answering)
============================================================================
