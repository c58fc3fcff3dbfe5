------------------------------ MODULE FrameQueue ------------------------------
(***************************************************************************)
(* What the two rings of the Ethernet driver promise: the frames that      *)
(* found a place in the ring leave it one by one, whole and in the order   *)
(* they came in.  The receive ring takes frames from the wire and hands    *)
(* them to lwIP, the transmit ring takes them from lwIP and puts them on   *)
(* the wire.                                                               *)
(***************************************************************************)
EXTENDS Naturals, Sequences

CONSTANTS Frames, Size, Nothing

VARIABLES pending,  \* frames in the ring
          hand      \* the frame that is being handed over, or Nothing

qvars == <<pending, hand>>

QInit == pending = <<>> /\ hand = Nothing

Enter(f) == /\ Len(pending) < Size
            /\ pending' = Append(pending, f) /\ UNCHANGED hand

Leave == /\ pending # <<>> /\ hand = Nothing
         /\ hand' = Head(pending) /\ pending' = Tail(pending)

\* The frame has been passed on, or dropped.
HandOver == hand # Nothing /\ hand' = Nothing /\ UNCHANGED pending

QNext == (\E f \in Frames : Enter(f)) \/ Leave \/ HandOver

QSpec == QInit /\ [][QNext]_qvars
===============================================================================
