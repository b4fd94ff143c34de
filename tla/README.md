# Verification of my_linux_desktop

The repository holds two small network programs (`src/README.md`): **RTP**, a
reliable transfer of one message over UDP, in a go-back-N and in a selective-repeat
version, and **WebLab3**, a set of routers that find shortest routes with a
distance-vector algorithm. This directory models them in TLA+, checks small instances
with TLC, and proves the main facts about both with TLAPS for every value of the
parameters.

`R` stands for `src/rtp/assignment2-rtp/src`, `W` for `src/WebLab3`.

## 1. Inventory

| Component | Code | State | Operations |
|---|---|---|---|
| RTP sender, main thread | `R/sender.c`, `R/rtp.c` | message left to cut, next number, static frame buffer, `window->Sn` | `rtp_connect`, `send_msg` (cut, `cache_add`, send, join), `send_end` |
| RTP sender, `mythread` | `R/sender.c:31-76` | `window->Sf`, `window->right`; shares `cache` and window with the main thread, no lock | timeout, ACK that slides, any other packet, retransmission |
| RTP receiver | `R/receiver.c`, `R/rtp.c:135-343` | window, cache of early frames, `buf`, END seen and its number, byte count | `rtp_listen`, loop of `rtp_recvfrom`, writing the file |
| UDP channel | outside | packets under way | delivers late, repeatedly, out of order; loses; damages |
| Checksum | `R/util.c`, `check_cksum` in `R/rtp.c` | none | CRC-32 |
| Selective repeat | `R/opt_*.c` | as the sender and receiver above | main thread, handshake and END are the same code; an ACK for each frame, a scan over the slots found empty, drops beyond the window |
| Routing table | `W/router.c:7-159` | `rt_table`, `neighbor` | `table_init`, `sort_table`, `exchange`, `update`, reset |
| Router process | `W/router.c:161-236`, `W/rip.c` | `connfd`, mutex, one thread a connection | accept, neighbour test, dv, update, show, reset, table of a neighbour |
| Agent | `W/agent.c` | the command being carried out | dv, update, show, reset |
| `W/1800013203-WebLab3` | | | a second copy of the four files of `W`, byte for byte |

How they interact:

* Sender and receiver exchange datagrams START, DATA, END and ACK. In go-back-N the
  ACK names the next frame wanted; in selective repeat it names the frame it answers.
  Every packet that does not slide the window makes `mythread` send the oldest frame
  again. `mythread` frees cache slots (`cache_de`) while the main thread fills others
  (`cache_add`); the window border decides who owns a slot.
* Agent and routers, and routers among each other, send each message on a TCP
  connection of its own. A router's accept loop starts a thread for each connection;
  the thread looks up the sender in `neighbor` *without* the mutex, then handles the
  message, its own sends included, under the mutex.

Where it is hard: two threads on one cache without a lock; ACKs and frames that come
late, twice or out of order; a single END; a number of frames computed with an
off-by-one; a scan for acknowledged frames that cannot tell them from frames not yet
built; in the routers the order in which threads take the mutex, the shared `connfd`,
a neighbour test that is stale when the mutex is taken, an uninitialised cost,
counting to infinity, and one process's death that takes down the others.
`PROJECT.json` lists each hazard at its line.

What makes each part correct:

* sender: a frame the receiver misses is still in the cache; what is sent again is the
  oldest frame; the thread ends only when all is delivered, and then does; the two
  threads, which spin on each other's progress, never both wait;
* receiver: `buf` is a prefix of the message; the file is not shorter than the message;
  in selective repeat, what has been acknowledged is held;
* checksum: `compute_checksum` is the CRC-32, and refuses the packets the other modules
  take for refused;
* both ends and the channel together: a reliable transfer (refinement), which completes
  when losses are finite;
* routing table: no route shorter than a path, no circles, shortest routes at rest, no
  use of a cost that was never set;
* routers and agent: every command has its effect or its answer, and the routers come
  to rest.

## 2. Modules

| Module | Models | Corresponds to |
|---|---|---|
| `RtpNetwork` | UDP in both directions | external; packets are headers, the range of the message they carry, and whether the checksum fits |
| `RtpMessage` | cutting the message | `data2frame`, the copying of `send_msg`, `end_seqnum` |
| `RtpSender` | both threads of the go-back-N sender | one action for each stretch of code between two points at which the other thread or a packet can intervene; `mainPc` and `ackPc` are these points |
| `RtpReceiver` | the go-back-N receiver | one action for each branch of the loop of `rtp_recvfrom` |
| `Rtp` | the composition, its fairness and its properties | |
| `ReliableTransfer` | abstract: chunks delivered in order, confirmed only when delivered, end only when all are confirmed | |
| `Checksum` | the CRC-32, and its definition to compare with | `R/util.c` |
| `RtpBytes` | the bytes of the packets of `Rtp`, and `check_cksum` | `R/rtp.c` (`check_cksum`, the header), `R/sender.c:115` |
| `OptSender`, `OptReceiver` | selective repeat | `mythread` of `R/opt_sender.c`, `rtp_listen` and `rtp_recvfrom` of `R/opt_rtp.c`; the rest is `RtpSender` and `RtpReceiver`, which they extend |
| `OptRtp` | composition of those, fairness, properties and invariants | |
| `RipTable` | the routing table as functions of tables | `table_init`, `exchange`, `update` |
| `Rip` | routers, their threads, and the agent | one action for each message type handled under the mutex, one for each command and for the accept loop |
| `RtpInvariant`, `RipInvariant` | the inductive invariants | |
| `RtpProofs`, `RtpPrefixProofs`, `RtpSenderProofs`, `RtpRefinement`, `RtpFileProofs` | theorems about `Rtp`, `RtpFileProofs` and `RtpSenderProofs` each extend `RtpPrefixProofs`, and `RtpRefinement` the latter | |
| `OptProofs`, `OptSenderProofs` | theorems about `OptRtp`; the actions shared with go-back-N take their lemmas from `RtpFileProofs` and `RtpPrefixProofs` | |
| `RipProofs` | theorems about `Rip` | |
| `MCRtp` (extends `RtpBytes`), `MCOptRtp`, `MCRip` | instances for TLC | |

### How state corresponds to code (RTP)

* A payload is the range `[off, len]` of the message it was copied from. `TextLen` says
  what `strlen` would answer at an offset, so `data2frame`'s use of `strlen` is kept.
* `ok` of a packet is what `check_cksum` answers. The first transmission hands
  `FRAMESIZE` bytes to `sendto` whatever the frame's length, and the receiver takes the
  CRC of all it received: the first sending of a short frame never fits
  (`FirstSending`). The retransmission sends `length` bytes and fits. `RtpBytes` puts the
  actual bytes together, the stale ones behind a short chunk included, and
  `OkIsCheckCksum` compares `ok` with the CRC over them.
* `cache_add`'s `memcpy` is two actions, `CacheFrame` and `FrameCached`: `cache_get`
  can see the type byte of a slot whose rest is not there yet.
* `sender.c` and `rtp.c` have each their own static `rcb` (the header declares it
  `static`); the number that counts is the one of `sender.c`.
* The `timeval` is `static` in the header, one for each source file, and `select` leaves
  the time that remains in it, so after a first timeout the other calls of that file
  return at once: a timeout may happen at any moment.
* A damaged packet arrives instead of the intact one or of a copy of it (`Damaging`).
  The second is damage of one of several copies; the first takes the packet away, as
  the receiver does that drops it, until it is sent again, and END never is.
* The receiver's `rLeft` can fall behind `rSf` after END; `r_window->right` is always
  `left + size - 1` and is derived; `r_window->Sn` and the sender's `window->left` are
  written and never steer anything, and are left out.
* `free` of `r_cache` before its slots: the process then dies or goes on (`WriteFile`);
  `pthread_join` of an uninitialised `tid` on an empty message likewise (`FinishEmpty`).
* Selective repeat: `mythread`'s loop over empty slots is one action for each slot
  (`OptScan`, with `ackSeq` for `Sf + movesz`) because the main thread fills slots
  meanwhile. There `cache_get` looks at the length in the slot instead of the type.

### How state corresponds to code (routers)

* Tables of all routers have the rows in the order of their ids (`sort_table`), and
  `exchange` pairs rows by position; ids are `1..RtNum`, row `j` is entry `[j]`, and
  keeps its `dest` field because `reset` zeroes it.
* `d_xy` that is not set takes any value of `StackGarbage`.
* The mutex makes a handler, with all its sends, one action. Threads take it in any
  order, so the connections of a router are a bag, first `pending` (not accepted, or
  accepted and not yet past the neighbour test), then `waiting` (for the mutex). A
  message is checked in the first step and handled in the second: an update may come
  between.
* `Overwrite` is the accept loop that reuses `connfd` before a thread has read it. That
  the two threads then share a descriptor and one may close it under a later
  connection is not followed further: again a connection is lost.
* `up[r]` becomes false when a router writes to a dead one (SIGPIPE in `send_msg`) or
  may have written behind its table (update after reset).

## 3. Runs

| Run | Expect | Question |
|---|---|---|
| `rtp_safety` | pass | Five frames, the last one short, through windows of three, at most two packets lost for good: nothing is lost in the sender, the oldest frame is what is sent again, `mythread` ends only when all is delivered, END is never early, the two threads of the sender never wait for each other, the file is not short, and without the whole message only after a connection given up; `SenderInv` holds; the system implements `ReliableTransfer` (`TransferSpec`); a connected sender completes, and whatever it takes for the ACK of END, the receiver ends unless END itself is lost |
| `rtp_corrupt` | pass | One damaged packet, any type and number, receiver window smaller than the sender's: still a prefix, which grows as `ReliableTransfer` says (`DeliverySpec`), `ReceiverInv` holds, and the CRC over the bytes refuses what the model says is refused |
| `rtp_empty` | pass | The empty message, with a loss and a damaged packet: the receiver ends, unless END itself is lost or damaged |
| `rtp_fullframes` | violation | A length that is a multiple of `DATASIZE`: the thread never ends |
| `rtp_filelength` | violation | An early frame that comes twice is counted twice: the file is too long |
| `rtp_badack` | violation | An ACK with a damaged number ends the transmission too early |
| `opt_safety` | pass | Selective repeat, five frames through windows of three, one packet lost for good: a prefix, what is acknowledged is held, no frame from the left border on is lost, the two threads of the sender never wait for each other, the receiver delivers as `ReliableTransfer` says (`DeliverySpec`) and its file is not short, and a sender whose message is delivered finds out |
| `opt_skipped` | violation | The scan passes slots not filled yet: `mythread` ends with frames undelivered |
| `rip_routes` | pass | Three routers, chain and triangle; dv and a lowered link; one connection may be overwritten: no route too short, none in a circle, `d_xy` always set, shortest routes in the end and at rest, and the routers do come to rest |
| `rip_commands` | pass | Two routers, three commands of any kind at any time, reset included: nothing dies unless a reset has wiped rows, and show ends |
| `rip_raised` | violation | After a link gets more expensive, an uninitialised `d_xy` leaves wrong costs for good |
| `rip_stale` | violation | A link is removed while a table of that neighbour waits for the mutex, past the neighbour test: routes through a router that is none |

`MCRtp` also evaluates `ChecksumIsCrc32`: `compute_checksum` equals the reference
division for messages of two bytes, all first bytes with each of three second ones.

**Bounds.** Five frames through windows of three let a slot be used twice by the
sender and by the receiver and the window fill and move; packets are never removed
from the sets of `RtpNetwork` except by `Lose` and by damage, so any number of copies, any delay and
any order are covered without a bound, and loss only needs a bound (`MaxLoss`) where
something must happen in the end. `MaxCorrupt` is 1: one damaged packet is enough to
deceive a receiver that does not check. `CorruptSeqs` are the numbers a damaged header
may show. `CountCap` bounds the byte count (exact up to the message length, or beyond
it where the length is the question; 0 where it plays no part).

For the routers `MaxCommands` is 4 because a change of a link takes four commands: dv,
one update at each end, dv. Three routers are the fewest with a route that is not a
link. `MaxCopies` bounds equal messages waiting in one router and `MaxCost` the
counting up; in `rip_routes` neither is reached. Commands are *patient* where routes
are compared with the reference: the operator waits until the routers rest, and sends
dv only when both ends of a link have been updated. Without that the two ends restore
each other's old cost, and an update of both ends that crosses a dv makes two routers
exchange the old and the new cost for ever; `ComesToRest` is therefore a statement
about patient operators and about routers that can all reach each other, since a row
without a route sets `flag` whatever arrives. `rip_commands` has no such operator.

**Fairness.** `Rtp`: both threads of the sender run (weak fairness on their own
steps), because the kernel schedules them and `mythread`'s `select` always times out.
A packet that is sent again and again and not lost for good arrives (strong fairness
on the steps that take it); nothing is assumed about packets that change nothing. END
is sent once, and nothing brings it back when it is lost or damaged: `EndIsHeard`
excuses exactly that, and no other loss. It starts from both ways in which the wait for
END's ACK ends: nothing came or what came did not fit (`endUnacked`), or an ACK came
(`endAcked`), which may be a late one of a frame.
`OptFairness` is the same for selective repeat. No run assumes that a connection is
made. `Rip`: every thread gets to run and gets the mutex, which no thread keeps, since
its sends wait for no other thread's mutex; `show`'s connection is accepted in its
turn, as the queue of `listen` is first in, first out. The agent is fair only in
finishing a command, not in giving one.

`CHECK_DEADLOCK FALSE` throughout: all these programs may stop, at the end of a
transfer, when a connection is given up, or when the agent has no more commands.

## 4. Proofs

The theorems use the named assumptions on the constants (`NetworkAssumption`,
`MessageAssumption`, `SWindowAssumption`, `RWindowAssumption`, `TableAssumption` and
the one of `Rip`), which TLC evaluates in the runs, and where stated a hypothesis of
their own. The last steps of each proof are `Init => Inv`, `Inv /\ [Next]_vars => Inv'`
with one step for each action, and PTL.

### Go-back-N: every message length, frame size, window sizes, number of losses

* `TypeCorrect` (`RtpProofs`): `Spec => []TypeOK`.
* `ReceiverInvariant` and `InOrderDelivery` (`RtpPrefixProofs`), for any damage of
  packets and any answer of `strlen`: what the receiver hands over is a prefix of the
  message. The prefix alone is not inductive: the next chunk comes from a packet or
  from the receiver's cache. `ReceiverInv` adds that every frame, wherever it is (static
  buffer, sender's cache, channel with a fitting checksum, receiver's cache), carries
  the chunk its number says, because the message is cut at multiples of `DATASIZE`
  (`CutInv`, `FramesInv`), and that a frame the receiver keeps lies in the slot of its
  number and within one window of the frame wanted (`KeptInv`), so that a filled slot
  at the copying position is the frame wanted and not one a window later.
* `DeliversMessage` (`RtpPrefixProofs`), again for any damage: `Spec => DeliverySpec`,
  the delivering half of `ReliableTransfer` without the sender's part, which damaged
  ACKs can mislead. A frame copied is a `Deliver` of the next chunk. A prefix can be
  one that shrinks, or one that stops inside the last chunk and starts again: the step
  form excludes both. It needs that no frame is numbered beyond the message
  (`NumbersInv`), wherever it is.
* `WholeUnlessAbandoned` (`RtpFileProofs`), for any damage and any answer of `strlen`: the
  receiver leaves its loop without the whole message only if the sender has given the
  connection up. END then carries 0, which looks like the end of an empty message
  (`R/rtp.c:195`). `EndNumberInv` says that any other number named by END covers the
  message, on its way and when the receiver remembers it.
* `FileNeverShort` (`RtpFileProofs`), for any damage, when no byte of the message is NUL
  (`NoNul`, which `PlainText` of `MCRtp` satisfies): the file of a whole session is not
  shorter than the message. `CountInv` is the bookkeeping: the bytes counted and the
  bytes of the frames still missing make up the message, and more when a frame came
  early twice; a frame leaves `Missing` exactly when the receiver takes it, and then
  its bytes are counted. `EndNumberInv` again gives that all frames are there. That the file is *not longer* is false (`rtp_filelength`).
* `FileExact` (`RtpFileProofs`) says that this is the only way it gets longer: in a
  behaviour in which no frame the receiver holds already is accepted once more
  (`CountedOnce`), and again for any damage and without NUL bytes, the file of a whole
  session has the length of the message. The bookkeeping is then exact
  (`ExactCountInv`), because a frame that is accepted is one of the message
  (`NumbersInv`) and was missing. `CountCap >= MsgLen` only keeps the model's bound on
  `countnum` out of the way.
* `ThreadsNeverBothWait` (`RtpSenderProofs`), for any damage, if `DATASIZE` does not
  divide the length of the message (if it does, the statement is false: TLC finds the
  end of `rtp_fullframes`): the main thread never spins on the window or joins
  `mythread` while `mythread` spins on an empty slot. Its invariant says nothing of the
  receiver and holds in deceived behaviours too. `PaceInv` ties the counters of the
  main thread together (`Sn`, `rcb->seq_num`, what is left of the message, the right
  border); `FilledInv` says that every slot from the oldest frame not freed to the
  newest one built is filled, whatever an ACK has freed. A slide beyond the newest
  frame, by a damaged ACK, either reaches `end_seqnum`, so that `mythread` returns, or
  leaves the window open for the frame its new slot waits for.
* `SenderInvariant` (`RtpSenderProofs`), for any damage, in behaviours in which no damaged
  packet *deceives* the programs (`Undeceived`): `mythread` does not slide by a damaged
  ACK, whose checksum it does not look at (`R/sender.c:50`), and `rtp_listen` does not
  take a damaged packet with a number other than 0 for a START and acknowledge that
  number (`R/rtp.c:151`). `rtp_badack` shows that the first is needed; TLC finds
  `FinishedMeansDelivered` false without the second as well. All other damage does no
  harm, and where there is none nobody is deceived (`UndamagedUndeceived`). A packet
  damaged is trusted no more (`Trusted`), which is how the invariant outlives `Corrupt`.
  `SenderInv` relates the windows (`Sf <= rSf <=` frames cached, every ACK
  under way with a good checksum at most `rSf`), from which follows that the slots `mythread` frees and the
  one the main thread fills are never the same, and then the contents of the cache
  (`CacheInv`): the frames from the oldest not freed to the newest, each in its slot.
  From it: `NothingLostInSender`, `RetransmitsOldest`, `FinishesDelivered`,
  `EndAfterDelivery`; and, if nothing is damaged and the receiver's window is no smaller
  than the sender's, `WindowsAgree` (a damaged frame can show any number).
* `ImplementsTransfer` (`RtpRefinement`): `Spec /\ Undeceived => TransferSpec`.
  A frame copied is `Deliver`, the slide of `mythread` is `Confirm`, all else stutters;
  that only what is delivered is confirmed, and that the end comes with all frames, is
  what `SenderInv` provides.

### Selective repeat

* `OptTypeCorrect`, `OptInOrderDelivery`, `OptHoldsAcknowledged` (`OptProofs`), for any
  damage: `ReceiverInv` carries over, and with two more facts (a slot of the receiver
  holds a frame or is empty; nothing is acknowledged before the connection) gives that
  every frame acknowledged by number is copied or still in its slot (`AckedIsHeld`).
* `OptDeliversMessage` and `OptFileNeverShort` (`OptProofs`), for any damage: the
  receiver delivers as `ReliableTransfer` says, and when no byte is NUL its file is not
  short. The invariants are those of go-back-N (`NumbersInv`, `FileInv`), preserved by
  the other receiver's steps: its copy loop has two outcomes, the run of cached frames
  that have a length (`CopiedToBuf`), or none when the frame wanted has no length
  (`LeftInSlot`). Its sender may skip frames for good; the receiver then stays, and
  writes no file.
* `OptNothingLostBetween` (`OptSenderProofs`), as long as `mythread` believes no damaged
  ACK (`OptUndeceived`; `rtp_listen` answers 0 here, whatever it hears, and
  `OptUndamagedUndeceived` says that undamaged channels qualify): a sent frame from
  `Sf` on is in the sender's cache or held by the receiver. `OptSenderInv` needs one
  exception (`Passed`): the ACK of START, number 0, may have emptied slot 0, until the
  scan it starts has moved past it. The losses `opt_skipped` shows all lie behind `Sf`:
  the scan is the only way to lose a frame.
* `OptFinishesDelivered` and `OptImplementsTransfer` (`OptSenderProofs`): if moreover the
  scan never *skips* a frame (`OptUnskipping`) and no chunk of the message begins with a
  NUL byte (`NoEmptyChunk`), `mythread` ends only when all is delivered, and the two
  programs implement `ReliableTransfer` as go-back-N does. The scan skips a frame of the
  message when it passes its empty slot before the main thread has filled it, or when
  the ACK of START has emptied slot 0 before frame 0 arrived (`OptSkips`); the code
  excludes neither, so this says what the faults are, and that there are no others. For
  a message of few frames the first is also how the scan gets behind the last frame to
  `end_seqnum`: an empty slot there is none of the message's and confirms nothing, which
  is why `confirmed` is `Sf` only up to `NumFrames`. `OptConfirmedInv` says that what the
  scan has passed is held, and that the frame the receiver wants is not in its cache
  already (unless END has named it), since the copy loop took all it found; so what
  has been passed is copied, not only held. No run has these hypotheses: `opt_skipped`
  shows the conclusion false without `OptUnskipping`.
* `OptEndAfterDelivery` (`OptSenderProofs`), under the same conditions: END is sent only
  after the frames it stands for are delivered.
* `OptThreadsNeverBothWait` (`OptSenderProofs`), for any damage and whatever the scan
  skips, if `DATASIZE` does not divide the length of the message and no chunk is empty
  (`NoEmptyChunk`; such a frame's slot looks empty for ever): the faults of the scan
  lose frames, but no thread. ACKs empty slots anywhere here, so `OptFilledInv` speaks
  of the slot at `Sf` alone: where a slide has ended it is filled, or the main thread
  has not cached that frame yet, and the window is open for it.
* `OptFileExact` (`OptProofs`): as in go-back-N, only a frame counted twice makes the
  file longer than the message.

### Routers: any number of routers, any order of messages, lost connections

* `TypeCorrect` (`RipProofs`): every variable keeps its type for any commands, and the
  `dest` of a row, wiped or not, is an id `neighbor` can be indexed by. It does not say
  where `update` writes; the next two do.
* `ResetAloneKills`, for any commands: as soon as a router or the agent is dead, some
  dead router has rows a reset has wiped. A death spreads by SIGPIPE (`W/rip.c:70`) and
  begins with an update that finds no row and writes behind the table
  (`W/router.c:149`). `RowsInv`: row `d` of every table, also of those on their way, is
  about router `d` or wiped, since `exchange` pairs rows by position and takes a row
  over in the place it had; without this pairing (an unsorted table) updates would miss.
* `NoHarmWithoutReset`, from the same invariant: if the agent never gives reset, every
  update that waits finds its row, and no process dies.
* `RoutesNeverTooShort` and `DirectCostAlwaysKnown`, under `CalmLinks(L)`: the links
  are always among those in `L`, none of which is longer than the shortest way between
  its ends (`Metric`); topology files state the same cost at both ends; no reset is
  given, and if updates are, they lower costs and the operator is patient, as in
  `rip_routes`. The invariant is `RoutesInv(L)`: in every table, and in every table on
  its way to a neighbour, a route over a link to that neighbour is the link itself, and
  any other route costs at least the link it begins with and the shortest way from
  there. Hence a neighbour's table always has the direct row that sets `d_xy`, and its
  cost is the link's. An update changes one end of a link before the other, so the
  invariant knows two phases: tables are on their way and the costs agree
  (`Exchanging`), or commands are and no table is (`Updating`); an operator who waits
  is what separates them. `Metric` is needed: a link that is a detour loses its row.
* `NextAlwaysCloser`, if also each neighbour of a router has a link to every router the
  router has none to (`NeighborsSuffice`): the next router on a way is its destination
  or closer to it. It follows from `RoutesInv`, for the neighbour's route is then its
  link and cannot be raised by an old table.
* `RestsWithShortest`, if also routers without a link have a common neighbour on a
  shortest way, and every neighbour a shortest way begins with is such a one
  (`ShortestInTwo`): all routes are shortest ones whenever the routers rest after a dv
  and no connection was overwritten. `ToldInv` adds to `RoutesInv` that of every router
  asked to tell its table the dv is still on its way, or each neighbour has the table
  on its way or what was to learn from it; `MergedShortest` shows that what has been
  learned is not lost again, whichever tables follow.
* `NextAlwaysNeighbor`, if no link is removed and no router reset (`LinksStay`; links may
  get cheaper or more expensive, at one end or both, under any operator): no router has
  a route through one that is not its neighbour. No passing run checks this: with three
  routers whose links stay it says less than `NextIsCloser`. `NeighborInv` adds that a table that
  waits for the mutex, past the neighbour test, came from a router that is still a
  neighbour when it is merged. `rip_stale` shows that one removed link is enough to
  break this; without removals and resets the stale test (`W/router.c:170`) is harmless.
* The two conditions (of `NextAlwaysCloser` and `RestsWithShortest`) cover stars, complete networks, and with equal costs complete
  bipartite ones such as a square, and the networks of `rip_routes`. In others both
  properties are false: there an older table of the next router, merged after a newer
  one, raises a cost (`W/router.c:129`).
* `Dist` is a parameter of `Rip`: the proofs use of it what `Metric` says, a triangle
  inequality over links. `MCRip` shows with `RouteLinksAreCalm` that the networks of
  `rip_routes`, with the link as it is and lowered at one end or both, satisfy every
  hypothesis named here.

### Only model-checked

* All liveness (`Completes`, `EndIsHeard`, `DeliveredFinishes`, `Converges`,
  `ComesToRest`, `ShowReturns`): fairness and ENABLED are out of the prover's reach.
* `OkIsCheckCksum`, and `compute_checksum` against the definition: what a recursion
  computes for every input needs induction over data. The same holds for
  `ShortestDist`, which computes the reference distances over the number of links.

## 5. Findings

Shown by the violation runs (`PROJECT.json` has the lines): the frame count of full
messages, the byte count of repeated early frames, unverified ACKs, the slots
selective repeat skips, the uninitialised `d_xy`, the neighbour test that is stale when
a table is merged.

Seen on the way and not given a run: START's checksum is tested only if the type is
START, so that the END of an abandoned connection opens one at a receiver whose START
was lost (`R/rtp.c:151`); any ACK counts as the END's (`R/rtp.c:120`); END is sent once,
and when it is lost or damaged the receiver waits forever (`R/rtp.c:104`); `strlen` shortens chunks
with NUL bytes (`R/sender.c:18`); routes through a removed neighbour stay in the other
routers (`W/router.c:153`); in a chain of four routers an older table merged after a
newer one may wipe out a route (`W/router.c:129`); two routers with an unreachable
destination send to each other forever (`W/router.c:126`).

## 6. Not modelled

* Errors of system calls that end a process, the parsing of command lines and of the
  location and topology files (files name positive costs, commands name routers that
  exist), printing, and memory safety of buffers. Numbers do not wrap: the windows'
  `int` and `uint32_t` meet the same 2^31 only after terabytes.
* Optimised reads of the variables the two threads share: every read is a fresh one.
* The second copy of `W` (byte for byte the same) and the build files.

## 7. Plan

What is left, in order of worth:

1. Messages with NUL bytes: `TextLen` is a parameter already; runs that show what
   remains true of the file, for go-back-N and, where a length of 0 also means an empty
   slot, for selective repeat.
2. Four routers, with old tables and with unreachable destinations, as runs of their
   own.
3. `sort_table`'s bubble sort against sorting over bounded inputs.
