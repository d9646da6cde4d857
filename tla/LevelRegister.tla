---------------------------- MODULE LevelRegister ----------------------------
(***************************************************************************)
(* What the kernel module promises of its published pressure level: a      *)
(* register with one level and a serial number, written by one notifier at *)
(* a time and read by user space.  A notification, a statistics message    *)
(* and /proc/uroam/status are atomic reads; a pressure query over netlink  *)
(* is only a regular one, which may overlap a write and then answers with  *)
(* the level before it or the level it writes, never with any other.       *)
(***************************************************************************)
EXTENDS Integers

CONSTANTS
  Level,     \* the levels that can be published
  CountMod   \* serial numbers wrap here

VARIABLES
  published,  \* the level of the last complete write
  serial,     \* how many there have been, modulo CountMod
  writing,    \* the level of the write in progress, if there is one
  asked,      \* what an open query has read
  msg         \* the last message user space got

vars == <<published, serial, writing, asked, msg>>

Nothing == "nothing"

Init ==
  /\ published \in Level /\ serial = 0 /\ writing = {}
  /\ asked = Nothing
  /\ msg = [kind |-> "none", level |-> "NONE"]

\* A message may be lost.
Message(k, l) == msg' = [kind |-> k, level |-> l] \/ UNCHANGED msg

BeginWrite ==
  /\ writing = {}
  /\ \E l \in Level : writing' = {l}
  /\ UNCHANGED <<published, serial, asked, msg>>

EndWrite ==
  /\ published' \in writing
  /\ serial' = (serial + 1) % CountMod
  /\ writing' = {}
  /\ UNCHANGED <<asked, msg>>

\* An atomic read: the level that belongs to the serial number.
Report ==
  /\ \E k \in {"notify", "stats", "status"} : Message(k, published)
  /\ UNCHANGED <<published, serial, writing, asked>>

Ask ==
  /\ asked = Nothing
  /\ asked' \in {published} \cup writing
  /\ UNCHANGED <<published, serial, writing, msg>>

Answer ==
  /\ asked # Nothing
  /\ Message("reply", asked)
  /\ asked' = Nothing
  /\ UNCHANGED <<published, serial, writing>>

Next == BeginWrite \/ EndWrite \/ Report \/ Ask \/ Answer

Spec == Init /\ [][Next]_vars
=============================================================================
