----------------------------- MODULE LinkMonitor ------------------------------
(***************************************************************************)
(* What the gateway promises about the links to its devices, whatever the  *)
(* tasks that keep the list are doing: a link comes up only when its       *)
(* device is heard, and goes down only after a verdict, which is reached   *)
(* when the device has missed MaxMissed + 1 asks since it was last heard   *)
(* (or is off line anyway).  Once reached a verdict is carried out, even   *)
(* if the device is heard in between.                                      *)
(***************************************************************************)
EXTENDS Naturals

CONSTANTS Links,        \* one link per port
          MaxMissed     \* asks a device may miss in a row

VARIABLES online,       \* is the link up?
          missed,       \* asks missed since the device was last heard, while up
          verdict       \* the link that is about to go down, or 0

mvars == <<online, missed, verdict>>

MInit == /\ online = [l \in Links |-> FALSE]
         /\ missed = [l \in Links |-> 0]
         /\ verdict = 0

\* The device on link l answers.
Hear(l) == /\ online' = [online EXCEPT ![l] = TRUE]
           /\ missed' = [missed EXCEPT ![l] = 0]
           /\ verdict' = verdict

\* The device on link l is asked; nobody waits for a verdict on it.
Miss(l) == /\ online[l] /\ missed[l] <= MaxMissed /\ verdict = 0
           /\ missed' = [missed EXCEPT ![l] = @ + 1]
           /\ UNCHANGED <<online, verdict>>

Condemn(l) == /\ verdict = 0
              /\ online[l] => missed[l] = MaxMissed + 1
              /\ verdict' = l
              /\ UNCHANGED <<online, missed>>

Drop(l) == /\ verdict = l
           /\ online' = [online EXCEPT ![l] = FALSE]
           /\ missed' = [missed EXCEPT ![l] = 0]
           /\ verdict' = 0

MNext == \E l \in Links : Hear(l) \/ Miss(l) \/ Condemn(l) \/ Drop(l)

MSpec == MInit /\ [][MNext]_mvars
===============================================================================
