-------------------------------- MODULE FepUdp --------------------------------
(***************************************************************************)
(* FEP_UDP_Handler with its socket: who a frame is sent to, and the        *)
(* datagrams that come in.  The rest of the gateway is FepGateway, whose   *)
(* UDP task this one refines: where FepGateway tests the flag, the task    *)
(* here may also be anywhere in recvfrom or in SendFindMasterReturn.       *)
(*                                                                         *)
(* The tcpip thread posts a datagram to the mailbox of the socket and then *)
(* counts it in rcvevent (recv_udp, event_callback); recvfrom, called with *)
(* MSG_DONTWAIT, looks at the count only, and takes a datagram out of the  *)
(* mailbox with a wait that has no end.  Whatever it takes overwrites      *)
(* server_addr, which is where the next frame goes.                        *)
(***************************************************************************)
EXTENDS FepGateway

CONSTANTS
    Hosts,      \* who may send a datagram
    Datagrams,  \* what they send: [from : Hosts, ask : BOOLEAN]
    Server,     \* SERVER_IP_ADDR, where frames go at first
    MboxSize    \* archMESG_QUEUE_LENGTH, 6, whatever size lwIP asks for

ASSUME SocketAssumption ==
    /\ Server \in Hosts /\ MboxSize \in Nat \ {0}
    /\ Datagrams \subseteq [from : Hosts, ask : BOOLEAN]

\* A datagram asks for the master if it has SOFTWARE_PACKET_LENGTH bytes or more and
\* begins with START_FINDMASTER and STATUS_ASK.
NoBuf == [from |-> Server, ask |-> FALSE]

VARIABLES
    server_addr,    \* FEP_UDP_Handler's local
    recvmbox,       \* the mailbox of the socket
    rcvevent,       \* sock->rcvevent
    buf,            \* the netbuf that recvfrom has taken
    tcpipPc         \* recv_udp: "idle", or "event": posted and not yet counted

sockVars == <<server_addr, recvmbox, rcvevent, buf, tcpipPc>>
uvars == <<vars, sockVars>>

UInit ==
    /\ Init
    /\ server_addr = Server
    /\ recvmbox = <<>> /\ rcvevent = 0 /\ buf = NoBuf /\ tcpipPc = "idle"

-------------------------------------------------------------------------------
(***************************************************************************)
(* FEP_UDP_Handler.                                                        *)
(***************************************************************************)
TaskGoes(at, next) ==
    /\ udpPc = at /\ udpPc' = next
    /\ UdpUnchanged
    /\ UNCHANGED <<Flag_SendUDP, fep_dev_list_Sem, udpI, unreported>>

NothingToSend ==
    /\ TaskGoes("test", "recv") /\ Flag_SendUDP # ACTIVE
    /\ UNCHANGED <<buff, sockVars>>

\* The end of SendGetValue.  What sendto returns is not looked at.
SendFrame ==
    /\ TaskGoes("send", "recv")
    /\ buff' = <<>>
    /\ UNCHANGED sockVars

\* Slip: recvfrom without MSG_DONTWAIT.
RecvWaits ==
    /\ TaskGoes("recv", "fetch")
    /\ UNCHANGED <<buff, sockVars>>

\* Slip: the flag is cleared at the end of the loop, sent or not.
RecvClears ==
    /\ udpPc = "recv"
    /\ udpPc' = (IF rcvevent > 0 THEN "fetch" ELSE "test")
    /\ Flag_SendUDP' = INACTIVE
    /\ UdpUnchanged
    /\ UNCHANGED <<fep_dev_list_Sem, udpI, unreported, buff, sockVars>>

Recv ==
    /\ TaskGoes("recv", IF rcvevent > 0 THEN "fetch" ELSE "test")
    /\ UNCHANGED <<buff, sockVars>>

Fetch ==
    /\ TaskGoes("fetch", "minus") /\ recvmbox # <<>>
    /\ buf' = Head(recvmbox)
    /\ recvmbox' = Tail(recvmbox)
    /\ UNCHANGED <<buff, server_addr, rcvevent, tcpipPc>>

\* Slip: the count starts over instead of going down by one.
RcvMinusAll ==
    /\ TaskGoes("minus", IF buf.ask THEN "reply" ELSE "test")
    /\ rcvevent' = 0
    /\ server_addr' = buf.from /\ buf' = NoBuf
    /\ UNCHANGED <<buff, recvmbox, tcpipPc>>

\* NETCONN_EVT_RCVMINUS, and the address of the sender.
RcvMinus ==
    /\ TaskGoes("minus", IF buf.ask THEN "reply" ELSE "test")
    /\ rcvevent' = rcvevent - 1
    /\ server_addr' = buf.from /\ buf' = NoBuf
    /\ UNCHANGED <<buff, recvmbox, tcpipPc>>

SendFindMasterReturn ==
    /\ TaskGoes("reply", "test")
    /\ UNCHANGED <<buff, sockVars>>

Send == \/ UdpTest \/ UdpClear \/ UdpTake \/ UdpTimeout \/ UdpCopy \/ UdpGive
Task == \/ Send /\ UNCHANGED sockVars
        \/ NothingToSend \/ SendFrame \/ Recv \/ Fetch \/ RcvMinus \/ SendFindMasterReturn

-------------------------------------------------------------------------------
(***************************************************************************)
(* The tcpip thread.  It preempts the task between any two steps.          *)
(***************************************************************************)
\* Slip: a datagram is counted whether it found room or not.
RecvUdpCounts ==
    /\ tcpipPc = "idle" /\ tcpipPc' = "event"
    /\ \E d \in Datagrams :
          recvmbox' = IF Len(recvmbox) < MboxSize THEN Append(recvmbox, d) ELSE recvmbox
    /\ UNCHANGED <<vars, server_addr, rcvevent, buf>>

\* A datagram that finds no room, or no netbuf, is dropped: a step that changes nothing.
RecvUdp ==
    /\ tcpipPc = "idle" /\ Len(recvmbox) < MboxSize
    /\ \E d \in Datagrams : recvmbox' = Append(recvmbox, d)
    /\ tcpipPc' = "event"
    /\ UNCHANGED <<vars, server_addr, rcvevent, buf>>

\* NETCONN_EVT_RCVPLUS.
RcvPlus ==
    /\ tcpipPc = "event" /\ tcpipPc' = "idle"
    /\ rcvevent' = rcvevent + 1
    /\ UNCHANGED <<vars, server_addr, recvmbox, buf>>

-------------------------------------------------------------------------------
Others == TIM3_IRQHandler \/ UART4_Byte \/ UART4_Break \/ GetValue \/ Rs485

UNext == \/ Others /\ UNCHANGED sockVars
         \/ Task \/ RecvUdp \/ RcvPlus

USpec == UInit /\ [][UNext]_uvars

(***************************************************************************)
(* The timer keeps firing, the scheduler keeps serving the three tasks, and *)
(* the tcpip thread, of a higher priority, ends what it has begun; nobody  *)
(* has to send a datagram.  Nobody holds the mutex for more than a few     *)
(* instructions, so a take can only time out when its holder is held up    *)
(* for a whole tick; that this does not happen to every single ask of a    *)
(* port is an assumption of its own, stronger than fairness of GvTake,     *)
(* which need not be enabled at all in a round that times out.             *)
(***************************************************************************)
UFairness ==
    /\ WF_uvars(TIM3_IRQHandler /\ UNCHANGED sockVars)
    /\ WF_uvars(GetValue /\ UNCHANGED sockVars) /\ WF_uvars(Rs485 /\ UNCHANGED sockVars)
    /\ WF_uvars(Task) /\ WF_uvars(RcvPlus)
    /\ \A i \in Ports : \/ <>[](~(gvPc = "lock" /\ gvI = i))
                        \/ []<><<GvTake /\ gvI = i>>_uvars

UFairSpec == USpec /\ UFairness

-------------------------------------------------------------------------------
(***************************************************************************)
(* Properties.                                                             *)
(***************************************************************************)
RecvSteps == {"recv", "fetch", "minus", "reply"}

\* The gateway as FepGateway sees it.
Abstract == INSTANCE FepGateway WITH
    udpPc <- IF udpPc \in RecvSteps THEN "test" ELSE udpPc

\* With its socket the task is still the one of FepGateway: what comes in over the
\* network neither delays a test of the flag into a lost round nor disturbs a frame.
ImplementsGateway == Abstract!Spec

\* The variables of the socket hold values of their types.
SocketTypeOK ==
    /\ Abstract!TypeOK
    /\ udpPc \in {"test", "clear", "lock", "copy", "give", "send"} \cup RecvSteps
    /\ server_addr \in Hosts
    /\ recvmbox \in Seq(Datagrams) /\ Len(recvmbox) <= MboxSize
    /\ rcvevent \in Nat
    /\ buf \in Datagrams \cup {NoBuf} /\ tcpipPc \in {"idle", "event"}

\* recvfrom never waits: when it goes to the mailbox there is a datagram in it, though
\* it has looked at a count that another thread updates after the fact.
NeverWaits == udpPc = "fetch" => recvmbox # <<>>

\* A host that asks for the master, and whose datagram has found room in the mailbox,
\* is answered, whatever else comes in.
AskIsAnswered ==
    \A h \in Hosts :
        (\E k \in 1 .. Len(recvmbox) : recvmbox[k] = [from |-> h, ask |-> TRUE])
            ~> (udpPc = "reply" /\ server_addr = h)
===============================================================================
