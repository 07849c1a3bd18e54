--------------------------- MODULE SimpleNetwork ---------------------------
(***************************************************************************)
(* What every driver of EFI_SIMPLE_NETWORK_PROTOCOL in Drivers/Net keeps   *)
(* towards its client: the three states of the interface, and for the      *)
(* buffers lent with Transmit, that GetStatus hands each back at most      *)
(* once and in the order of acceptance.  A new start may forget what was   *)
(* lent.                                                                   *)
(***************************************************************************)
EXTENDS Integers, Sequences

CONSTANT Buffer   \* the numbers of the buffers

VARIABLES
  mode,   \* EFI_SIMPLE_NETWORK_MODE.State
  held    \* buffers accepted by Transmit and not handed back, oldest first

snVars == <<mode, held>>

Stopped == "Stopped"
Started == "Started"
Initialized == "Initialized"

SNInit == mode = Stopped /\ held = <<>>

SNStart ==
  /\ mode = Stopped
  /\ mode' = Started
  /\ held' \in {held, <<>>}

SNInitialize == mode = Started /\ mode' = Initialized /\ UNCHANGED held

SNShutdown == mode = Initialized /\ mode' = Started /\ UNCHANGED held

SNStop == mode # Stopped /\ mode' = Stopped /\ UNCHANGED held

\* Buffers are numbered in the order in which Transmit gets them.
SNTransmit ==
  /\ mode = Initialized
  /\ \E b \in Buffer :
       /\ \A i \in DOMAIN held : held[i] < b
       /\ held' = Append(held, b)
  /\ UNCHANGED mode

SNRecycle ==
  /\ held # <<>>
  /\ held' = Tail(held)
  /\ UNCHANGED mode

SNNext ==
  \/ SNStart \/ SNInitialize \/ SNShutdown \/ SNStop
  \/ SNTransmit \/ SNRecycle

SNSpec == SNInit /\ [][SNNext]_snVars
============================================================================
