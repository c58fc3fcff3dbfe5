# FEP_F4: a verification project

FEP_F4 is the firmware of a gateway (STM32F4, FreeRTOS, lwIP).  It asks the sensors on
six RS485 ports for their readings, keeps a list of the devices that answer, and sends
the list to a server over UDP.  This directory holds TLA+ modules that model the parts
of the firmware where tasks, interrupts and DMA meet, TLC configurations that check
them, and theorems that TLAPS checks.

Paths below are relative to `src/`.

## 1. Inventory

| component | state | operations | modelled in |
|---|---|---|---|
| FEP tasks and device list (`Drivers/FEP/fep_process.c`, `fep_gpio.c`, `fep_rs485_getvalue.c`, `fep_rs485.c`, `fep_udp.c`) | `fep_dev_list` and its mutex, `Flag_GetData`, `Flag_SendUDP`, packet queue, `data_buff` | timer interrupt, polling round, packet handler, frame to the server | `FepGateway`, `LinkMonitor` |
| RS485 line (`Drivers/FEP/rs485.c`) | selected port, direction, `data_buff`, `rx_index` | select, ask, turn round, byte and break interrupt | `Rs485Bus` |
| Ethernet receive path (`ethernetif.c`, `stm32_eth.c`, `stm32xxx_it.c`, lwIP's `tcpip.c`) | descriptor ring, `Seg_Count`, semaphore, pbuf pool, mailboxes | DMA, interrupt, input task, tcpip thread | `EthInput`, `FrameQueue` |
| Ethernet transmit path (`ethernetif.c`, `stm32_eth.c`) | descriptor ring, lazily created semaphore, DMA state | `low_level_output`, `ETH_Prepare_Transmit_Descriptors`, `ETH_Start`, `ETH_Stop` | `EthOutput`, `FrameQueue` |
| Ethernet link (`stm32_eth_bsp.c`, `netconf.c`, `stm32_eth.c`, lwIP's `netif.c`) | PHY latch, EXTI line, semaphore, `EthStatus`, MACCR, `xnetif` | start-up, EXTI handler, link task, callback | `EthLink` |
| Buzzer (`Drivers/Buzzer/buzzer.c`) | command queue, pin | `BuzzerTick`, `BuzzerServe` | `Buzzer` |
| Debug output (`Drivers/Serial_Debug`) | `Tx`, `Rx`, CR1 of USART1 | `SER_PutChar`, `USART1_IRQHandler` | `SerialDebug` |
| Server address and discovery (`fep_udp.c`; lwIP's `sockets.c`, `api_lib.c`, `api_msg.c`) | `server_addr`, the mailbox of the socket and `rcvevent` | `recvfrom`, `recv_udp`, answer to `FINDMASTER` | `FepUdp` |
| ARP table (lwIP's `etharp.c`, `netif.c`) | `arp_table`, the cached entry, the pool of queue elements | output, query, input, timer; `netif_set_down` by the link task | `EthArp` |
| Port of lwIP (`sys_arch.c`) | mailboxes, semaphores | `sys_mbox_*`, `sys_sem_*` | the mailboxes, in `EthInput` and `FepUdp` |

How they interact: the timer raises a flag that the polling task waits for; the polling
task selects ports of the bus; the UART interrupt fills the buffer and the queue that
the packet handler reads; polling task, packet handler and UDP task share the list; the
UDP task is told by a flag that a round is complete, and its frames go through lwIP's
tcpip thread to the transmit path.  The link task follows the PHY, stops and starts the
DMA, empties the ARP table of the tcpip thread when the link goes down, and beeps.
Every task may print.

What is hard here: the three FEP tasks have one priority and are time-sliced, and part
of their accesses to the list are not under its mutex; takes of the mutex time out after
a tick, and each caller goes on in its own way; the line is shared by six ports, and an
answer that comes late runs into the next one; the DMA, an edge-triggered interrupt with
a latch behind it, and tasks that wait for semaphores must not miss each other; pools,
rings and queues run full.  Nothing is persistent: a restart is a start, and there is no
crash recovery to model.

What makes each component correct: a device is on line exactly as long as it answers
often enough, a frame composed under the mutex has every device on line, each with the
reading that was last stored to the end, and no round is forgotten (FEP tasks); a break
queues exactly what came in since the one before (RS485); no wake-up, pbuf or descriptor
is lost and frames keep their order (receive, transmit); no link change is forgotten and a quiet interface is what the link is (link); the buzzer
falls silent; a character printed has been sent (debug output); the UDP task never waits
for a datagram and answers who asks (discovery); packets that wait for an address are
accounted for, do not wait for ever and go to the host they are for (ARP table).

## 2. Modules

**`FepGateway`** is the core.  An action is one access to shared state, or the accesses of a
section that no other actor can touch meanwhile; the prefixes are `Gv`
(`FEP_RS485_GETVALUE_Handler`), `Rs` (`FEP_RS485_Handler`) and `Udp` (`FEP_UDP_Handler` with
`SendGetValue`).  `gvPc`, `rsPc`, `udpPc` are the tasks' program counters, `gvI` and `udpI` their
loop indices, `reg` the bytes of `data_buff` that the packet handler has loaded.  The line is
not constrained: `UART4_Byte` and `UART4_Break` let anything come in, as the interrupt
handler checks neither size nor checksum.  The array indexed by device ids is `Slots`, the
ids a packet can name and the ports polled.  `data_buff` is not volatile and the handler
reads it up to twice, so that `RsData` and `RsDataL` store the byte loaded before or the byte
that is there now.

Three history variables, on which nothing else depends, record what the code keeps no
account of.
`unreported`: a round has been completed and no frame begun since.  `stored`: the reading of
each slot as it would be if the packet handler stored its two bytes in one step, at its
last store (zeros before the first).  `overtaken`: an interrupt has changed `data_buff` since the handler's first load
of the reading it is storing.  Such a reading may have bytes of two answers, and `stored`
takes it as the list has it; any other is the pair that is in `data_buff`.

**`LinkMonitor`** is the abstract specification of the list: a link goes up only when it is
heard, its count of missed asks starts at 0, and it goes down only after a verdict that
it missed too many.  `FepGateway` implements it (`LinksMonitored`) under the mapping `online`
<- status, `missed` <- count of a device on line, `verdict` <- the polling task between its
check and its write.

**`FepUdp`** extends `FepGateway` and gives its UDP task a socket: the mailbox, the count
`rcvevent`, and the address that every datagram overwrites.  The tcpip thread posts a
datagram (`RecvUdp`) and counts it (`RcvPlus`) in two steps; the task looks at the count
(`Recv`), fetches (`Fetch`, which waits without an end if there is nothing) and counts down
(`RcvMinus`, with the copy of the address).  `ImplementsGateway` says that with its socket
the task is still the one of `FepGateway`, under the mapping that takes the positions in the
socket's code to the test of the flag.

**`EthArp`** is lwIP's ARP table as this firmware configures it, with `etharp_output`,
`etharp_arp_input` and `etharp_tmr`, one action per handler, because the tcpip thread is of
the higher priority, and the link task's `netif_set_down`, one action per access, because
it is not.  An address is the host it belongs to: ARP messages are taken to be true.  Which
element of the pool is taken is of no account; the model takes the lowest.  When
the tcpip thread takes a queue that the link task is freeing, elements are freed twice,
and the model stops there (`raced`): the properties are about what happens until then.

**`Rs485Bus`** models the line byte by byte: `rx_index`, the wrap after ten, the shift by one
at a break, an answer cut short by an unplugged device (`Cut`) or by the selection of the
next port, and noise.  Its property `FeedsGateway` says that whatever the line does is a
`UART4` interrupt of `FepGateway` (or invisible to it), which justifies the free line there.

**`EthInput`** models the receive ring and everything up to the sockets; **`EthOutput`** the
transmit ring, the three tasks that send (the tcpip thread, and main and link task, which
announce the address) and the DMA that suspends itself.  Both implement **`FrameQueue`**, the
first as long as the pool has not run dry, the second unless the semaphore has been
created twice.  The DMA, the readers of the sockets and the PHY are external and
modelled from what the drivers do with them.

**`EthLink`** composes the start-up by the main task, the PHY with its latch, the EXTI line,
the link task and its callback; it extends **`Buzzer`**, whose queue both tasks send to.

**`SerialDebug`** models `SER_PutChar` access by access (`USART_ITConfig` is a load and a store)
and the interrupt, which is entered again for as long as an enabled flag is set.

`MC...` modules instantiate the modules for TLC.  Definitions commented "Slip" are
plausible mistakes in the action that follows them; no specification uses them, and each
shows that a property notices.

## 3. Runs

| run | question | result |
|---|---|---|
| `gateway_status` | two ports, all bytes, every interleaving: `OnlineIsFresh`, `MutexHeldInSection`, `FrameComplete`, `NoRoundForgotten`, `LinksMonitored`, and readings in a frame as last stored to the end (`FrameReadingsWhole`) | holds |
| `gateway_live` | the UDP task with its socket: `NeverWaits`, `ImplementsGateway`, and under fairness `AskIsAnswered`, `TickLeadsToFrame`, `SilentGoesOffline` | holds |
| `gateway_stale_check` | is a device disconnected only if it exceeds the limit? | violated |
| `bus` | `BreakQueuesLine`, `FeedsGateway` | holds |
| `eth_input` | `PbufsAccounted`, `NoWakeupLost`, `ReleasesOwnOnly`, `InStep`, `ImplementsQueue` | holds |
| `eth_stall` | is a frame that is ready processed? | violated |
| `eth_output` | `NoFrameStranded`, `SemaphoreReturned`, `OutputIsQueue` | holds |
| `link_follow` | `NoLinkEventLost`, `FollowsLink`, `FallsSilent` | holds |
| `link_maccr` | do FES and DM follow the negotiation? | violated |
| `arp` | `QueuesAccounted`, `SentToItsHost`, `OneEntryPerHost`, `OnlyPendingQueues`, `CleanedStaysClean`, and under fairness `WaitingEnds` | holds |
| `serial` | `SentWhenReturned`, `StormOnlyAfterRace` | holds |
| `serial_hang` | does every wait of `SER_PutChar` end? | violated |

Bounds, and why they are enough:

- *Gateway*: two ports, so that a loop has a first and a last slot and two devices can
  interfere, of which one answers (`Ids`: the other one's slot is asked and never heard);
  `MaxReceCount = 0` and `CountMod = 2`, the smallest limit and the smallest counter that can
  exceed it and wraps; `QueueSize = 1`, so that the queue is often full.  `Cells` is 0x00 and
  0xFF, one byte that makes a reading and one that makes "no reading": what is compared are
  the bytes of a frame with those stored, so that two values tell all mixtures apart.
  Interrupts change `data_buff` at every step, between the loads and stores of the packet
  handler too: overtaken readings occur.
- *Gateway with its socket*: one port, a mailbox of one datagram, a host that asks and a
  server that sends something else: the mailbox is full whenever it is not empty, and
  datagrams come in at every step.  No property of this run looks at readings.
- *ARP table*: three hosts on two entries, so that entries are recycled; three elements
  for queues of two, so that the pool and a queue each run full first; an entry lives for
  four ticks, may be asked for again after two and is given up after two while pending;
  ages are compared modulo two, so that the truncated ages change which entry is recycled.
- *Bus*: `BuffSize` and `RxWrap` are the code's 10; two faults of the line (`MaxFaults`) shift the
  index twice, which reaches the byte behind the buffer.
- *Receive*: a ring of three, two pbufs, mailboxes of one: ring, pool and mailbox each run
  full in some order.  `eth_stall` needs only a ring of two and one pbuf.
- *Transmit*: a ring of two; the semaphore can be created by each of the three tasks.
- *Link*: nothing is bounded but the buzzer's queue, of two (one beep fits, two do not).
- *Debug output*: three tasks with two characters each: one may wait, one be overtaken,
  one overtake.

## 4. Fairness

`FepUdp!UFairSpec`: the timer keeps firing, each of the three tasks is weakly fair, as
time-slicing among equal priorities gives (interrupts and lwIP's tasks do not run for
ever), and the tcpip thread ends what it has begun; nobody has to send a datagram.  A take
of the mutex may time out at any time, which makes weak fairness of the tasks too weak to
say that an ask is ever counted; `UFairSpec` assumes in addition that not every ask of a
port times out for ever.  The mutex is held for a few instructions and a take waits a
whole tick.

`EthArp!FairSpec`: the timer of the tcpip thread, whose priority is above that of every task
that could keep it from running, is served.

`EthInput!FairSpec` and `SerialDebug!FairSpec`, used by violations only: the interrupt is
served, the tasks run when they can, and frames keep coming (receive) or the USART keeps
sending (debug output).  A system that just stops is thus not the counterexample.

## 5. What the code does not do

Four runs end in a counterexample.

- `gateway_stale_check`: the polling task compares the count and writes the status in two
  accesses without the mutex (`fep_rs485_getvalue.c:103-105`).  A device that answers in
  between is disconnected with a count of 0.  It comes back with its next answer.
- `eth_stall`: a frame for which `pbuf_alloc` fails keeps its descriptor, and the task waits
  for the next interrupt (`ethernetif.c:289`).  When the ring is full of such frames no
  interrupt comes.  With the project's numbers the pool (8) can run dry: the mailbox of
  the tcpip thread and that of one socket hold 6 each.
- `link_maccr`: speed and mode are or-ed into MACCR (`stm32_eth_bsp.c:440-447`) and never
  cleared.
- `serial_hang`: two tasks that print at once can leave the transmit interrupt enabled with
  nothing to send (`Serial_Debug.c:85`); it is then entered for ever.  The polling task and
  the packet handler print their first line at the same time, without `Serial_Sem`.

Also seen while modelling, present in the modules as behaviour, and not the subject of a
property:

- `fep_rs485.c:173-177` takes the reading from `data_buff`, which later bytes may have
  overwritten, not from the packet.  It loads and stores the two bytes one by one, with the
  UART interrupt enabled: a byte or a break that comes in between (`rs485.c:178-196`) leaves
  the high byte of one answer and the low byte of another in the list, and the next frame
  sends them.  The mutex does not help, since the interrupt does not take it.
  `FrameReadingsWhole` says that this is the only way: of two bytes of one device in a frame
  that were not overtaken so, both are of the same pair in `data_buff`.
- a frame whose take of the mutex times out is sent without any device (`fep_udp.c:241`);
  `FrameComplete` and `FrameReadingsWhole` are about frames composed under the mutex.
- the index of the receive buffer wraps only above 10 (`rs485.c:196`): after ten bytes without
  a break the eleventh is written behind `data_buff[9]`.  `Rs485Bus` has that place in its
  state, and the line reaches it; what lies there in memory is not modelled.
- a packet that finds the queue full is dropped (`rs485.c:186`), and a device that answers is
  then counted as if it had not.
- `fep_rs485_getvalue.c:103` speaks of 20 packets, the code of 10.
- `fep_rs485_getvalue.c:102-105` writes the list without the mutex that is to protect it
  (`drivers.c:22`); frames stay complete all the same (`FrameComplete`).
- after a failed allocation `FS_Rx_Desc` names the frame given up, and the next pbuf gets the
  bytes of that frame with the length of its own.
- a boot without a cable leaves MAC and DMA unconfigured (`stm32_eth.c:358`), and the
  interface goes up on them when the cable comes.
- a link change between `stm32_eth_bsp.c:67` and `:72` gives a semaphore that is NULL, and one
  before `netconf.c:92` finds no callback.
- `EXTI9_5_IRQHandler` clears the pending bit only if the pin is low when it looks.
- `Eth_Link_IT_task` empties the ARP table (`stm32_eth_bsp.c:497`, through `netif_set_down`)
  outside the tcpip thread.  The table is not protected: if the thread answers, ages or
  recycles the entry whose queue is being freed, elements and pbufs are freed twice.
- `etharp_find_entry` keeps the age of a candidate in a `u8_t` (`etharp.c:271`) and compares it
  with ages up to 1200, so that the entry recycled need not be the oldest one its comment
  (l. 352) speaks of.
- every datagram, whoever sends it, becomes the address of the frames (`fep_udp.c:149-150`);
  `check_ipserver` with its list of five is commented out.
- `low_level_output` returns ERR_OK for a frame that it has dropped, and may create its
  semaphore twice.

## 6. Proofs

`FepGateway_proofs` proves, for every number of ports, every set of ids, every limit that
fits the counter and every queue size:

| theorem | property | argument |
|---|---|---|
| `TypeCorrect` | `TypeOK` | inductive together with `AnswerInHand`: while the packet handler is at work the packet it holds is an answer, so it writes a slot of the list; one lemma per task |
| `MutexCorrect` | `MutexHeldInSection` | inductive together with `TypeOK` |
| `OnlineFresh` | `OnlineIsFresh` | needs `TypeOK`, `MutexHeldInSection` and that the packet handler's count is 0 between its reset and its give |
| `NoRoundLost` | `NoRoundForgotten` | inductive together with `TypeOK` |
| `ReadingsWhole` | `FrameReadingsWhole` | a frame agrees with the list while the UDP task holds the mutex (`FrameReadingsCurrent`), and the list with what is stored except between the packet handler's two stores (`ListStored`), when that task holds the mutex |
| `FramesComplete` | `FrameComplete` | needs besides that a slot's number is written before its status makes it on line |

`OnlineIsFresh` is the interesting one.  It is not inductive: when the packet handler sets
the status of a device it does not look at the count, which it has reset one access
before.  The strengthening says that while the handler is between the two, holding the
mutex, the count is 0, and that therefore nobody counts an ask in between; the polling
task's unlocked check may still take the device off line, which does no harm.  The limit
must be at least two below the counter's modulus, or the count could wrap past the check
(`CountAssumption`; 10 and 256 in the code).

The two theorems about the frame rest on one lemma, `ListFrozen`: a step that is not the
UDP task's, taken while that task holds the mutex, leaves what a frame shows of the list
alone.  It is where the locking pays: the polling task's unlocked check writes a status,
but only to take a device off line, so it can neither change a reading that is in the frame
nor make a slot that the loop has passed into one that the frame lacks.

`ReadingsWhole` needs besides what the handler has in hand (`LoadedWhole`): as long as no
interrupt has overtaken the reading, the bytes loaded, and the byte already in the list,
are those of `data_buff`, so that the last store completes the pair that stands there.  The
theorem does not say that a frame never mixes two answers, which is not so (section 5).

It also proves `LinksAreMonitored` (`LinksMonitored`): every step of the gateway is a step of
`LinkMonitor` or a stutter.  This rests on the invariants above: that the packet
handler's count is 0 between its reset and its give, which makes a link that comes up
start at 0, and that the counter of a device on line cannot wrap.

`FepUdp_proofs` proves, for every set of hosts and datagrams and every size of the mailbox:

| theorem | property | argument |
|---|---|---|
| `RecvNeverWaits` | `NeverWaits` | inductive with an account of the datagrams: the mailbox holds as many as `rcvevent` counts, one more while the tcpip thread has posted and not counted, one less while the task has fetched and not yet counted down |
| `SocketImplements` | `ImplementsGateway` | step by step under the mapping; the steps of the socket are stutters |
| `SocketTypeCorrect` | `SocketTypeOK` | the types of the gateway, through the refinement, and those of the socket |
| `SocketKeepsGateway` | `MutexHeldInSection`, `OnlineIsFresh`, `NoRoundForgotten`, `FrameReadingsWhole`, `FrameComplete`, of `FepUdp` | the theorems of `FepGateway_proofs`, instantiated under the mapping (`Proved`), carried over by the refinement |

`Rs485Bus_proofs` proves, for every number of ports, every queue size and every number of
faults on the line, and for an index that wraps after nine as well as after ten:

| theorem | property | argument |
|---|---|---|
| `TypeCorrect` | `TypeOK` | inductive with the rest of the invariant |
| `QueuesTheLine` | `BreakQueuesLine` | `LineStored`: since a break the k-th byte of the line is in `data_buff[k]`, and `rx_index` follows from the number of bytes, until the index comes round to the first of them; the shift at the next break puts the packet at 0 .. 4 |
| `LineFeedsGateway` | `FeedsGateway` | step by step: a byte at index 3 or 4 is `UART4_Byte`, a break is `UART4_Break` with the packet as `FepGateway` reads it, anything else changes nothing the tasks see |

`EthInput_proofs` proves, for every size of ring, pool and mailboxes:

| theorem | property | argument |
|---|---|---|
| `TypeCorrect` | `TypeOK` | `GivenUpAll` bounds `Seg_Count`: once every descriptor has been given up the task can be woken once more at most |
| `EveryPbufAccounted` | `PbufsAccounted` | step by step |
| `NoWakeupIsLost` | `NoWakeupLost` | the interrupt gives the semaphore before it clears the flag (`GivenBeforeCleared`) |
| `GivesBackItsOwn` | `ReleasesOwnOnly` | `RingDivided` |
| `PlacesKept` | `InStep` | `RingDivided` |
| `ReceivesInOrder` | `ImplementsQueue` | until a frame is given up the task has one in hand at most (`OneInHand`), so that the pending frames are those from its place to the DMA's |

`RingDivided` is the heart of it.  Seen from the first descriptor that the task has not
given back, the ring is divided in three: the descriptors that the task holds (the frame
in hand and those it gave up), those with frames that it has not looked at, and those of
the DMA.  `FS_Rx_Desc`, `Seg_Count`, `DMARxDescToGet`, the DMA's place and the owner bits are
five accounts of this one division; neither `InStep` nor `ReleasesOwnOnly` is inductive
without it.  When the task has given up the whole ring the division is void and
`GivenUpAll` takes its place: nothing but a pbuf that comes back could then wake the task,
and none can come back before it looks.  The lemmas `Slot`, `Further`, `Grows` and `Shrinks` are the
arithmetic of the ring.

`EthArp_proofs` proves the six safety properties of the ARP table for every number of hosts and
every size of table, queue and pool, from one inductive invariant, `IInv`:

| theorem | property |
|---|---|
| `TypeCorrect` | `TypeOK` |
| `NothingLeaks` | `QueuesAccounted` |
| `RightAddress` | `SentToItsHost` |
| `NoSecondEntry` | `OneEntryPerHost` |
| `StableSendsAll` | `OnlyPendingQueues` |
| `DownIsClean` | `CleanedStaysClean` |

`IInv` adds that a stable entry's address is that of its host, that the interface is down
while the table is being emptied, that a queue being freed is still on its entry, and
that the entry about to be cleared has none.  The properties lean on each other: a packet
leaves for the right address only because the elements of a queue are held for the entry's
host (`QueuesAccounted`), and a recycled entry brings no queue along only because stable and
empty ones have none (`OnlyPendingQueues`).  What the four handlers and the link task do to the
pool is reduced to three lemmas (`AccountsChange`, `AccountsDrop`, `AccountsSame`).  Which entry is
recycled is never looked at, so that the truncated ages do not matter.

`SerialDebug_proofs`, `EthOutput_proofs` and `EthLink_proofs` prove the state invariants of those
modules, each module from one inductive invariant, `IInv`:

| module | theorem | property | what the invariant adds |
|---|---|---|---|
| `SerialDebug_proofs` | `TypeCorrect` | `TypeOK` | a task has a character left when it waits |
| | `CharSent` | `SentWhenReturned` | until two tasks overlap: from its write to its store a task is alone, with its character in `Tx` and the interrupt disabled |
| | `StormNeedsRace` | `StormOnlyAfterRace` | while no character comes in between a load and a store of `CR1`: once a character is there, neither the register nor a loaded copy of it enables the receive interrupt |
| `EthOutput_proofs` | `TypeCorrect` | `TypeOK` | the semaphores that exist and those about to be created are at most one per task |
| | `NothingStranded` | `NoFrameStranded` | a suspended DMA is flagged, or a task that has cleared the flag is about to wake it |
| | `SemaphoreComesBack` | `SemaphoreReturned` | whoever is past the creation has a semaphore to give |
| | `SendsInOrder` | `OutputIsQueue` | a second invariant, see below |
| `EthLink_proofs` | `TypeCorrect` | `TypeOK` | |
| | `ChangeIsNoticed` | `NoLinkEventLost` | the PHY's interrupt is enabled one step before its line |
| | `BuzzerFallsSilent` | `FallsSilent` | how the queue ends, not only what it does when empty |
| | `InterfaceFollowsLink` | `FollowsLink` | one invariant for a start-up without a change of the link, one for the task afterwards: what it is about to make of the flag is the state of the link, or the latch is set |

`SemaphoreReturned` holds also when two tasks have each created the semaphore, which breaks the
mutual exclusion but loses no give.

That the transmit path implements `FrameQueue` (`OutputIsQueue`) needs the mutual exclusion, and
so an invariant of its own, `QInv`, which says nothing once there are two semaphores:
one task at a time is in the section or between the creation and the first give
(`OneAtATime`); that task works on the descriptor of `DMATxDescToSet`, which is not the DMA's
and holds a frame by the time it is given away (`Owner`); and the DMA owns exactly the
descriptors from its own place to the one that the next frame goes to (`RingHolds`).  Then
`SetOwn` enters a frame, `Transmit` takes one out, `Transmitted` hands it over, and every other
step, the copy into a free buffer included, leaves the queue as it is.  `Counts` shows that
the number that `InRing` chooses is the number that `RingHolds` speaks of.

The assumptions are the ASSUMEs of the modules on their constants; TLC evaluates them in
every run.

## 7. Model-checked only

Every safety property of a passing run, invariants, action properties and refinements, is
stated by a theorem.  What stays with TLC is liveness, which the prover does not reach:
`TickLeadsToFrame`, `SilentGoesOffline`, `AskIsAnswered` and `WaitingEnds`, on the instances of
`gateway_live` and `arp`; and the four violations, which are counterexamples and have
nothing to prove.

The theorems hold for every value of the constants within the ASSUMEs, but of the models:
what section 8 calls a limit of a model is a limit of its theorems.

## 8. Not modelled, and the plan

Not modelled: FreeRTOS, the rest of lwIP and the vendor's libraries (third-party;
modelled where the drivers use them), which make up nearly all of the repository's lines; RTC, DALI, buttons, DHCP and the LED task (compiled out or never
created); `fep_list.c`, `check_device`, `getFreeID`, `check_ipserver` and `SER_GetChar` (called by
nothing); register set-up that no property is about.

Some limits of the models: one frame is one descriptor, because a buffer holds the
longest frame; `USART_ITConfig` and the accesses to `fep_dev_list` are as fine as the Keil
build (no optimisation) compiles them, and `Tx`, which is not volatile, is read again in
every turn of a wait there; the DMA reads a descriptor and suspends itself in one step.

Next, in this order:

1. theorems: the gateway with its line, `Rs485Bus` in place of the free line of `FepGateway`, from
   `LineFeedsGateway`; with it, what the devices on the ports say reaches the list;
2. the pool and the mailboxes: that a pool larger than the places that hold a pbuf never
   runs dry, so that `EthInput` implements `FrameQueue` without the exception;
3. the timers of lwIP (`timers.c`) with `sys_arch_mbox_fetch` and its time-out, which serve
   `etharp_tmr`.
