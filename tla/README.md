# HyperLab in TLA+

HyperLab (the repository under `src/`) is a JavaScript workspace built on the
Holepunch stack: applications (`apps/`), experimental protocol libraries
(`labs/`) and a test and measurement harness (`harness/`).  The libraries
underneath (hyperdht, hypercore, autobase, hyperbee, secret streams) are git
submodules with no files in this checkout; they are modelled from how the code
uses them and marked *external*.

This directory holds TLA+ models of the code, the TLC configurations that check
them, and TLAPS proofs.

## 1. Inventory

Offsets are given as `file:line` below `src/`.

| Component | State it keeps | Operations | Talks to |
|---|---|---|---|
| filedrop sender, `apps/filedrop/index.js:59-149` | the file, its manifest, one async session per connection, `settled`, the `finished` promise | `listen`, `onconnection` (manifest, resume, chunks, done, receipt), `close` | receiver over a secret channel; retrieval-market |
| filedrop receiver, `index.js:166-284` | `state` and descriptor in memory; `.part`, sidecar, final file on disk | `receive` | sender; disk; retrieval-market |
| wire protocol, `apps/filedrop/protocol.js` | `MessageReader` (buffer, queue, waiters, ended), nonce counters of `SecretChannel` | `writeMsg`, `read`/`expect`, `runCPace`, `send`/`recv`, manifest codec, passphrases | socket |
| browser transfer, `apps/filedrop/browser.js` | everything in memory | `createSender`, `receive` (no resume) | dht-relay |
| web app and gateway, `apps/filedrop-web` | page state (`nodePromise`, `locked`); gateway's DHT node, sockets | `startSend`, `startReceive`, `getNode`; `createGateway`, `close` | browser transfer; DHT |
| command line, `apps/filedrop/cli.js` | none of its own | `send`, `receive` | filedrop |
| SyncDB, `apps/sync-sdk/index.js` | Autobase log, Hyperbee view, update listeners | `set`, `del`, `get`, `addWriter`, `update`, `apply`, `ready`, `close` | Autobase, Hyperbee (external) |
| hyperbeam-pake, `labs/hyperbeam-pake/index.js` | a CPace instance: scalar, messages, ISK, confirmation | `start`, `finish`, `confirm`, `verifyConfirm` | filedrop protocol |
| pq-secretstream, `labs/pq-secretstream/index.js` | handshake state of both sides | `selectMode`, `initiate`, `respond`, `finalize` | bare-pqcrypto |
| bare-pqcrypto, `labs/bare-pqcrypto/index.js` | key pairs, hybrid signer | keygen, sign, verify, encapsulate | noble libraries |
| frost-multiwriter, `labs/frost-multiwriter/index.js` | key shares, one-shot signing sessions, a single-writer core | `dealerKeygen`, `commit`, `sign`, `aggregate`, `append` | hypercore (external) |
| retrieval-market, `labs/retrieval-market/index.js` | none (pure) | `createReceipt`, `signReceipt`, `verifyReceipt`, `aggregate` | filedrop |
| hypercore-riblt, `labs/hypercore-riblt/index.js` | coding window, decoder's residual cells | `Encoder.add`, `produceSymbol`, `Decoder.addCodedSymbol`, `reconcile` | - |
| hypercore-raptorq, `labs/hypercore-raptorq` | decoder's row basis, rank | `Encoder.symbol`, `Decoder.add`, `decode`, `authenticate` | coded transfer gate |
| lossy link and coded transfer, `harness/lossy-link.js`, `harness/bench/raptorq-gate.js` | flows, delayed packets; senders' ESI cursor, receiver's decoder | `impair`, `close`; rounds, rank reports, acknowledgements | raptorq |
| benches, `harness/bench/run.js`, `replicate.js` | results of repetitions, baseline file; directories, cores, nodes and sockets of a run | run, fold, compare, retry, write; build up, measure, tear down | all |
| test harness, `harness/two-peer.js` | two DHT nodes, a server, a pair of sockets | `createTwoPeer`, `destroy` | benches |
| real-network scripts, `harness/realnet` | child processes, what they have printed, an exit code | `spawnJson`, `waitFor`, `dropTrial`, `syncTrial`, `serve`, `join`, `send`, `recv` | filedrop, SyncDB |
| tools, CI, patches | none | scripts | external packages |

### Which behaviours are hard

*Filedrop.*  A transfer survives dropped connections and killed receivers
because three files on disk agree: the `.part`, the sidecar with the resume
offset and the consumer seed, and the final file.  They change in separate
steps (write, fsync, save, rename, unlink), any of which may be the last one.
The sender serves several connections at once, each from the offset that
connection asked for.  A receipt may be lost after the file has landed.  Two
files may have the same name.

*Wire protocol.*  Frames arrive in pieces; a reader may end with frames still
queued; a write waits for a drain that may never come; both sides advance a
nonce in step or the channel dies.

*SyncDB.*  Every node applies the same operations in an order that changes
under it: the view is truncated and reapplied as the order is revised.

*Signing, decoding, reconciling.*  A nonce must serve one signature; a rateless
decoder must stop only when it is right and within its budget; a receipt set
must aggregate to one result in whatever order it is seen.  A handshake must not
be talked into a weaker mode by whoever carries its messages.

*Web app.*  A page outlives its transfers: a broken node promise is kept, a lock is
taken, a button is disabled, and every way out of a transfer has to put them back.

*Tools.*  A trial has four sources of events, two pipes and two exits, which come
in any order; a bench that throws half way holds directories, nodes and sockets;
a gate that retries must not forget what it saw before.

### What makes each component correct

* filedrop: only whole offered files under the final name; no false receipt;
  a resume continues from exactly the verified prefix; one identity, one
  receipt; an attempt on a steady connection completes.
* wire protocol: frames are delivered whole, in order and once; no file byte
  moves before both sides hold the same key; nonces are never reused.
* SyncDB: nodes that saw the same operations have the same view; the last
  write in the agreed order wins; membership changes take effect once.
* frost-multiwriter: a commitment is signed with at most once; fewer than the
  threshold never sign; the signed log has no forks.
* retrieval-market: no double payment, a result independent of the order.
* pq-secretstream: two ends have one key only over the strongest mode both offered.
* bare-pqcrypto: a hybrid signature needs both its halves, and an error is a no.
* web app: what a page says of a transfer is so, and its controls come back.
* benches and trials: a verdict is that of everything measured; a success was one;
  every run ends and lets go of what it held.
* riblt, raptorq: a decoder that says it is done has the right answer, and it
  is done when it has enough symbols.

## 2. Plan

Built, in the order of what a fault would cost a user:

1. `FileDelivery`, `Filedrop`: the core application.
2. `SecureSession`: frames, the CPace gate, the secret channel.
3. `SyncDB`: apply, reordering, membership.
4. `ReceiptLedger`: `aggregate`.
5. `GaloisField`, `FountainDecoder`; `CodedTransfer`, the rounds over the lossy
   link, which uses the decoder's rank.
6. `Riblt`: encoder and peeling decoder against the difference of two sets.
7. `FrostLog`: signing sessions and the threshold-signed log.
8. `HybridHandshake`, `PqCrypto`: the post-quantum labs.
9. `WebDrop`: the two pages, the transfer in memory, the gateway.
10. `NetTrial`, `BenchGate`, `BenchRig`: the harness.
11. Proofs: each component has its theorems in a module of its own, `Filedrop_proofs`,
    `SecureSession_proofs`, `SyncDB_proofs`, `FountainDecoder_proofs`,
    `CodedTransfer_proofs`, `Riblt_proofs`; those that share a run share a module,
    `Labs_proofs` and `Apps_proofs`.

Would come next:

12. The arguments behind the liveness properties as far as they are safety: a measure
    that every step of `NetTrial` and `CodedTransfer` decreases, and that no state short
    of the end is one where only unfair actions are left.
13. Two receivers in one output directory, with open descriptors and renamed files.
14. The encodings under `CodedTransfer` and `SecureSession`: headers, varints,
    and the byte counts that decide when a frame is too long.

The number of runs and properties is kept small: one run per component or group of
components with all of its properties, and one run per disagreement.

## 3. Modules

### `FileDelivery` - what filedrop promises

Three variables: the file under its final name, the contents that ever landed,
and the receipt each sender settled with.  `Land(s)` makes a complete file of
`s` appear in one step; `Settle(s)` settles a sender once, with a receipt for
its own bytes, after they landed.

### `Filedrop` - how it keeps the promise

| Module | Code |
|---|---|
| `spc`, `snext`, `finished` | where each `onconnection` is awaiting, its `i`, the `finished` promise |
| `rpc`, `mem`, `frame` | where `receive` is, its `state` and manifest, the chunk in hand |
| `part`, `sidecar`, `final` | `<name>.part`, `<name>.filedrop.json`, `<name>` |
| `up`, `s2r`, `r2s` | the socket and what it still holds, with what `MessageReader` has queued |
| `landed`, `issued` | history only: contents renamed into place, receipts signed |

One action is one stretch of code between two points where another process can
act or a kill can fall: each `await`, and in the receiver each effect on the
disk (truncate, write and fsync, save, rename, unlink).  The receiver's waits
are `Waiting` (in `recv`) and `Sending` (in `send`).  `ReceiverFail` and
`SenderFail` are the two catch blocks: they fire when a read or write rejects
on a dead connection, when a frame of another type arrives, when a chunk or the
assembled file fails its check.  `Kill` takes the receiving process away
between any two effects, or in the middle of the write (the chunk slot is then
`Torn`).  `Drop` kills a connection and loses a suffix of what it carried each
way; what is left stays readable, as `MessageReader.read` drains its queue
before it reports the end.

Abstractions.  A file is its sequence of chunks and is its own Merkle root, so
there are no hash collisions.  Offsets count chunks: `state.bytes` and
`state.verified` are one number because they move together and every chunk but
the last has `chunkSize` bytes; a short last chunk fills its slot.  The channel
is authenticated (`SecretChannel`), so frames are only dropped, never altered.
A receipt is its three compared fields; its signature is a property of having
been issued.  A killed sender forgets its provider key, so a restarted one is
another member of `Sender`, which may offer the same content.  `fsync` holds:
a kill is a kill of the process, not a loss of power.  One receiver at a time
works in the output directory (`rpc` is one process); see section 6.

### `SecureSession` - one connection below the transfer

| Module | Code |
|---|---|
| `pc`, `st` | where the async function of a side is: `runCPace`, then the script of the session; running, in `writeMsg`'s wait for a drain, in `read`, over |
| `key`, `remote` | `isk` and the peer's message after `CPace.finish` |
| `tx`, `rx` | the counters of `SecretChannel` |
| `out`, `alive`, `closed` | the socket: what its peer has not been given, whether it lives, whether it has emitted `close` |
| `buffered`, `queue`, `ended` | `MessageReader` |
| `sent`, `got` | history: the bodies written and read |

`Send`, `Wait`, `Receive`, `Fail` and `Finish` are the steps of the function;
`Drained`, `Data` and `Close` are the events of the socket, `Cut` is the death of
the connection, which loses a suffix of what it carried.  `Data` hands over any
number of units whatever frame they belong to, and `Pull` cuts the buffer.

Abstractions.  A group element is who drew its scalar and from which passphrase
its generator came; the shared point is the two scalars and the generator; hash,
MAC and AEAD are injective terms.  So passphrases cannot be guessed and two
different ones never give one key: what is checked is the order and the checks,
not the cryptography.  A unit is a group of bytes; a header is two units so that
it can be cut.

### `SyncDB` - a shared key/value store

| Module | Code |
|---|---|
| `log`, `known` | what each writer appended, what each peer has replicated (Autobase) |
| `order`, `states` | the order a peer has applied, and view and writers before each node |
| `Applied`, `Admitted`, `After` | one turn of the loop of `apply` |
| `Set`, `Del`, `AddWriter` | the calls; each appends and updates |
| `Replicate` | a node arrives, with what it depends on, and the base updates |

Autobase is external.  The model asks of it what the code relies on: the order
of a set of nodes is a function of the set and respects the nodes' references,
and when the order changes the view is truncated to the part that kept its place
and applied again from there.  `Linear` is one such order; ties go to the writer
of lower rank, and the founder's rank is in the middle so that new nodes land
before and behind old ones.

### `ReceiptLedger` - `aggregate`

One action per turn of the loop (`Count`, `Refuse`) and one for the end
(`Finish`); `best`, `seqPrints`, `equivocating`, `invalid` are the variables of
the function.  `Owed` and `Contradicted` say what the result must be as sets,
without an order.  Signatures are a field of the receipt, fingerprints the
receipts themselves.

### `GaloisField`, `FountainDecoder` - the decoder of hypercore-raptorq

`FountainDecoder` is `Decoder.add` and `decode` over any field of characteristic
two: `Reduce` is one column of the first loop, `Leading`, `Dependent` and
`Normalize` what follows it, `Eliminate` one row of the second loop, `Store` the
end.  Data is written in terms of the source blocks, so that `data = coef` says
that a row is what it claims to be.  `Combinations` is no
code: it is all rows that can be added up from the pivot rows and the row in hand.
Coefficients are any row: the hash that
derives them is a choice.  `GaloisField` is the shift-and-add product of `gf.js`,
with any width and polynomial; the run uses width two.  The tables that speed it
up are finite data, not behaviour, and are not modelled.

### `CodedTransfer` - rounds over the lossy link

| Module | Code |
|---|---|
| `fwd`, `rev`, `drops` | datagrams on the link, each way; the link drops and reorders them |
| `got`, `decoded`, `acksLeft` | the receiver's decoder (as the set of symbols added), `wire.decoded`, `ackLeft` |
| `nextEsi`, `latestRank`, `feedbackSinceBatch`, `rankAtPrevPoll`, `ticking`, `senderStopped` | the sender |
| `outcome` | the `completion` promise, then how the function ended |

Time is left out but for three facts: `lostBatchMs` (at least four round trips)
ends only when nothing is in flight; the wait of six round trips before the
teardown ends only when all acknowledgements have arrived or been lost; the 30 s
limit falls only when nothing is left to happen.  The cap and the number of
acknowledgements are parameters, smaller than the code's.  `Rank(_)` is any
function that grows by at most one per symbol; the run takes one with dependent
repair symbols.

### `Riblt` - set reconciliation

| Module | Code |
|---|---|
| `localSet`, `remote` | the local set; how often each element was given to the `Encoder` |
| `mapping` | the cells of each element, which its hash determines: any that begin with cell 0 |
| `cs`, `decodable`, `remaining`, `failed`, `work` | the fields of `Decoder` |
| `remoteRecovered`, `localRecovered` | `bOnly`/`aOnly` with their windows: each element with its next cell |
| `stage` | `reconcile`'s loop, or `_tryDecode` |

`AddCodedSymbol` and `Desync` are the two ways `addCodedSymbol` goes,
`EndOfStream` and `GiveUp` the breaks of `reconcile`, `PeelRemote`, `PeelLocal`,
`Stale` and `OverBudget` one turn of `_tryDecode` each; the queue holds the sets of
cells that became pure together, taken in the order of the cells.  A cell keeps its count
and, for its two exclusive ors, the set of elements an odd number of which is in
it; the hash is ideal, so a cell looks pure only if exactly one element is left in
it.  The budget's factors are parameters so that a peeling can run out of it half
way.  The source is the peer's encoder through a channel that may lose, repeat or
reorder symbols or end; made-up cells are not modelled.

### `FrostLog` - the threshold-signed log of frost-multiwriter

| Module | Code |
|---|---|
| `nonces`, `made` | the nonces a `SignSession` holds between `commit` and `sign`; how often it has committed |
| `call` | one append: the tree it was opened for, the commitments and shares that came back, the list that was chosen, the signature |
| `tree`, `head` | every copy of the core: its blocks, and the signature of its head |
| `used` | history: every share ever made |

`Commit`, `Sign` and `Aggregate` are the operations of a session and of the
aggregator, `Open` is `signableFor`, `Distribute` the choice of a signing set,
`ThresholdSign` the in-process shortcut, `Land` the `core.append` with the finished
signature on the copy *as it is by then*, `Replicate` hypercore's replication.
Calls overlap freely, a signer may commit again for another call, `ThresholdSign`
may be given one session twice, and callers go away.  `toCommitmentList` puts every
commitment where the number of those that belong before it says, which is what a
stable sort by the signers' order does.  A commitment stands for its
nonce; the curve is ideal: shares aggregate exactly if each answers its own entry
of one list over one message.  Hypercore is external and accepts a tree exactly
with a signature of it (no patches in the manifest).

### `HybridHandshake` - pq-secretstream

`initiate`, `respond` and `finalize` are the three steps; the records `initiator`,
`responder` and `final` are what each was given and returned.  The network gives
`respond` and `finalize` any lists of modes and keys of this session or another.
`bindModes` is the digest of an offered list, as the code computes it over the
sorted list; both digests and the mode go into `deriveSessionKey`.  Primitives are
ideal terms, and decapsulation rejects implicitly as ML-KEM does.  Either digest
alone, or the mode alone with one digest, would already be enough for the property
on these lists, so leaving out just one of them is a change the run cannot tell.

### `PqCrypto` - bare-pqcrypto

Keys, ciphertexts and signatures are buffers: a length, and what is in them.
`kemEncapsulate`, `kemDecapsulate`, `sign`, `verify`, `hybridSign` and
`verifyHybrid` check the lengths the code checks, of the level the caller names,
which may not be the level of the key.  The halves of a hybrid signature come from
any signature made so far, from none, or cut short.

### `WebDrop` - the pages and the gateway

| Module | Code |
|---|---|
| `locked`, `dialog`, `send`, `hint` | the drop area, its dialog, how far each `startSend` is, what the page says |
| `node` | `nodePromise` of each page: not asked for, pending, ready, or rejected for good |
| `pass`, `recv`, `disabled` | each `startReceive` and the button |
| `conn`, `sent`, `got`, `receipt` | the connection of `browser.js`: what the sender sent, what the receiver took, a receipt on its way |
| `gateway` | `createGateway` and `close` |

The wire is the channel that `SecureSession` shows: in order and whole, but it may
break (`Cut`) at any time.  Every attempt starts at chunk 0; `Reload` is the user
loading the receiving page again.

### `BenchGate`, `BenchRig` - a benchmark run

`BenchGate` is `main` of `run.js`: `RunRep` is one repetition and, after the last
of a bench, the fold to the best value of every gated metric (the queue is a set, run
in the order of `BENCHES`, which is also that of the gates); `Judge` compares
with the baseline and sends what is over its threshold round again, twice at most;
`Finish` writes.  A metric that is missing, null, zero or infinite is skipped, as
`gateOne` does; against a negative baseline no metric is a regression, as `delta` then has
the sign of an improvement.  `BenchRig` is what one replication run holds: `Acquire` and
`AcquireThrows` go through the steps in the order of the code, `Release` and
`ReleaseThrows` through the groups that are closed together.

### `NetTrial` - trials over the network

| Module | Code |
|---|---|
| `main`, `kind`, `trials`, `exitCode` | where `main` of `trial.js` is awaiting, the results so far |
| `proc`, `pipe`, `lines`, `exited` | the children, what is in their stdout, what `spawnJson` has read and seen |
| `have`, `grant`, `ack` | the world: B has everything; the write access A gives to B; B's receipt or write on its way back |

Exit events and output are independent: `SeesExit` may come before the last
`ReadsLine`.  Timers are only clocks: `TimesOut` and `GivesUp` may fire at any time.
`have` and `ack` are what is so, which `main` never looks at: `BothExited` goes by reports.

### `MCLabs`, `MCApps` - several components in one run

The labs share no state, and neither do the pages and the tools.  `MCLabs` and
`MCApps` put them side by side: while one of them moves, the others rest in their
initial state, so a behaviour is a behaviour of one component and the state space
is the sum of theirs, not the product.

## 4. Runs

| Run | Instance | Shows |
|---|---|---|
| `faults` | two files `<<a,b>>`, `<<a,d,d>>` of one name, 3 connections, all may drop, kills at every point, window 1 | `FileDelivery` is implemented; no frame of an honest session is refused; an identity signs once; every change of the sidecar is one of three: removed with its file in place, one chunk further with the same seed, or displaced by the first chunk of another file |
| `resume` | one file of two senders, 3 connections, the last of them steady, kills everywhere but between rename and unlink, window 2, weak fairness | the `.part` covers the sidecar; every resume is from exactly the verified prefix; the steady attempt completes; its receipt settles the sender |
| `kill_at_unlink` | one file, kills anywhere | **violation** of `ResumeIsPrefix`, finding 1 |
| `name_clash` | two files of one name, no kills, two droppable connections | **violation** of `SteadyReceiveCompletes`, finding 2 |
| `session` | one or two passphrases, the frames of a one-chunk transfer, data cut anywhere, a connection that lasts or may die | frames arrive whole, once, in order; nothing is sealed before both sides hold one key from one passphrase; no nonce repeats; waits end with the connection; one passphrase completes, two fail on both sides |
| `sync` | 3 peers, one key, 4 operations | peers with the same operations have the same view; a write beats what it had seen; no put disappears undeleted; all end with one view |
| `coded` | 3 blocks, 7 symbols, 3 acknowledgements, 3 drops | the sender's rank is never too high; an acknowledgement ends the transfer; it completes when fewer datagrams are lost than the first round has, and ends in any case |
| `labs`, receipts | all arrays of up to 4 receipts, 2 channels, 2 sequence numbers, 2 bodies, both modes | the result depends on the set of receipts only; strict mode throws exactly when it must |
| `labs`, log | 3 signers of whom 2 sign, 2 appends, 2 copies, 4 commitments | no nonce serves two shares; every head is signed by a quorum for its very tree; an append fails only for a stated reason |
| `labs`, handshake | 7 lists of modes on each side and on the wire, keys of one other session | one key only over the best common mode; left alone, always one key |
| `labs`, signatures | 2 owners, 2 roots, all levels, 3 things made | a hybrid signature needs both halves over one root, and a failure is a no; levels do not mix |
| `labs`, reconciliation | any two sets of 3 elements, any mapping to 4 cells, all faults of the channel, a tight budget | what is reported is right and reported once, success means all of it; no pure cell is left when a symbol is asked for |
| `labs`, decoder | 3 blocks over the field of 4 elements, all rows | nothing received is forgotten; at full rank the blocks come out |
| `apps`, pages | 2 files, 2 receives, 2 chunks | verified means whole and of the sender with that passphrase; done means a receiver verified; the button comes back |
| `apps`, bench gate | 1 or 2 repetitions and 2 retries, 5 baseline files, all flags | the verdict is that of all repetitions ever run |
| `apps`, bench rig | both links, a failure at any step | nothing is held at the end, nothing closed under what uses it |
| `apps`, trials | 2 trials, with and without relay | a counted success was one; every run ends |
| `web_locked` | one transfer | **violation** of `HintHolds`, finding 5 |
| `riblt_empty` | 2 elements, a source that may be empty | **violation** of `SuccessRight`, finding 3 |
| `riblt_multiset` | one element, added to the encoder up to twice, in the local set or not | **violation** of `SuccessRight`, finding 4 |

Bounds.  `Filedrop`: three connections are the least with which an attempt fails,
another fails differently, and a third meets what both left on disk; both
violations need exactly that.  Two or three chunks give a first, a middle and a
last chunk; the two contents share their first chunk so that a prefix of one is a
prefix of the other.  A window of one makes every send wait for the reader, a
window of two lets chunks queue.  `SecureSession`: frames of one and two units
behind a header of two can be cut in every way there is, and the high-water mark
of three makes some writes wait and others not.  `SyncDB`: a grant, two
concurrent writes and a deletion that has seen one of them are four nodes; the
third peer relays and learns of things in other orders.  `ReceiptLedger`: a
contradiction found behind a better receipt needs three receipts, a fourth
repeats one.  `CodedTransfer`: three drops lose the whole first round, all its
reports, or all acknowledgements.  `Riblt`: three elements in four cells are enough
for peelings that cascade, that queue a cell twice, and that run past the budget.
`FrostLog`: two overlapping appends on two copies with four commitments let a
signer commit anew before it has signed, one nonce be asked for twice, and a copy
grow under a signature.  `PqCrypto`: with three things made there are two whole
hybrid signatures to mix halves from.  `WebDrop`: a second receive meets the broken
node and the spent passphrase of the first.  `BenchGate`: two repetitions and three
batches can each be good or bad in turn; metrics are chosen at, within and over a
threshold.  `NetTrial`: a second trial follows a failed or killed first one.
`BenchRig` has no parameters: its part of the run is complete.

The runs do not check for deadlock: each of these programs ends, and a user may
stop calling `receive` or writing.

Fairness.  `Filedrop` and `SecureSession`: each session's step, the receiver's
step and the socket's events are weakly fair, being continuations of an event
loop.  `Connect`, `Drop`, `Kill` and `Cut` are not: nothing obliges a user to
retry or a network to fail.  Completion is claimed of a connection that does not
fail (`SteadyReceiveCompletes`, `SamePassCompletes`) only.  `SyncDB`: replication
between any two peers is weakly fair, writing is not.  `CodedTransfer`: timers and
datagrams that are not dropped are weakly fair; drops are not, and are bounded.
`WebDrop`: a websocket opens or fails (the browser
says so either way), a connection is made, carries or fails, and the event loop runs
the handlers; users, `Cut`, `Reload` and the gateway's end are not fair.
`NetTrial`: `main` waits for markers with a timer (`waitFor`) and a child for its peer
with one (`withTimeout`), so these waits end.  Others have none, and that they end is an
assumption about the libraries and the platform: the exit waits of `main` (`trial.js:114,
147`) end if the children exit and node says so; a receiver of a file, of which no marker
is awaited, gets past `fullyBootstrapped` (`drop-recv.js:31`) or fails; the last `db.set` of
`sync-join.js:80` returns; what is closing closes.  A trial whose child hangs in one of
these hangs as well.  That anything succeeds is not assumed, and neither is that A or
the relay starts, for which `waitFor` has its timer.  The other modules claim no liveness.

### Findings

1. **Self-heal extends.**  `index.js:198-199` promises that a sidecar that
   outran the file cannot corrupt the resume.  `truncateSync` to a larger size
   (200) appends zeros, and the transfer goes on behind them.  The final root
   check (236) refuses the file, so no wrong file lands (`ImplementsDelivery`
   holds), but every later attempt resumes at the same offset and fails too.
2. **The other file's sidecar stays.**  The guard at `index.js:266-267` starts
   a fresh record for a different file of the same name but leaves the old
   sidecar in place while its `.part` is truncated.  If that attempt ends
   before its first chunk is saved, the old download is stuck as in 1.

What `RecordKept` says beside these.  A download keeps its *record* (signer and number
of chunks) through drops, kills and attempts at other files, up to the first chunk of
another file of that name that is verified, written and saved: `saveSidecar` (224) then
displaces it, and its signer and progress are lost for good.  That is by design (one
name, one sidecar), and it is the only way to lose them before the file is in place.
The record being kept is not the bytes being kept: in finding 2 it is the record that
survives and the `.part` that does not.

The first two vanish if the offset is taken as the lesser of the sidecar's and the
`.part`'s length, or the sidecar is removed when it does not match.

3. **An empty stream succeeds.**  `hypercore-riblt/index.js:347-349` breaks the
   loop on a null symbol "as truncation".  Before the first symbol no cell is
   non-empty, so `isDecoded()` holds, and a peer that vanished at once is reported
   as `success: true` with no difference.  Any later null is handled.
4. **The encoder takes duplicates.**  `index.js:52-56` promises to dedupe at every
   public boundary; `Encoder.add` (172) does not.  With 5 added twice and 5 in the
   local set the result is `success: true`, `bOnly = [5]`; the run shows this case.

5. **The page asks for what it refuses.**  After a transfer `app.js:107` says "drop
   another file to send again", but the drop area locked at 74 is never unlocked, and
   click, drop and paste ignore a locked area (164, 171, 175).  The same holds after
   a send that failed.  Only the change listener of a dialog opened before does not
   look at the lock.

Seen while modelling `run.js`, without a run of its own: `--baseline` together with
`--check` writes the baseline also if the check fails (453), so that the next check
is against the regression.  In `two-peer.js` and in `replicate.js`'s lossy
rig, the steps named in `Unguarded` leave what was acquired before them, and a
release that throws skips the rest of its list; `AllReleased` excepts both.

Seen while modelling `trial.js`, without a run of its own: the "belt-and-braces
orchestrator-side check" (119-124) looks for `basename(file)` in `tmp`, which is both the
directory B receives into (112) and the one in which A's payload was written (98-99).
It finds that payload, with its size, whatever B did.  The model has no such check, and
`TrialTrue` holds without it: the two reports say enough.  A key that `addWriter` failed
for is not tried again (`sync-serve.js:56`): the trial then counts as failed, after both
timeouts, which no property forbids.

Seen while modelling `raptorq-gate.js`, without a run of their own.  Lines
192-193 call the reverse path lossless; `lossy-link.js` impairs both directions,
and if every report of the first round is lost the sender polls on rank 0 until
its time limit (`Completes` is therefore claimed for fewer losses than that).
Lines 174-175 want rounds sized from a fully settled rank; `settled` (249) is one
poll without change, so with jitter a round may be sized from a rank still
climbing, and is then too large, never too small (`RankSound`).  That a late report
of a lower rank is ignored (205) makes rounds smaller and nothing else: no property here
needs it.  Lines 80-81 say
the sender stops on an acknowledgement, not a shared flag; the rounds also stop on
`wire.decoded` (248), which the receiver sets in the same process.

## 5. Proofs

`Filedrop_proofs`, for every set of senders, contents, window, number of
connections and choice of faults:

* `TypeCorrect`: `Spec => []TypeOK`.
* `TransferImplementsDelivery`: `Spec => ImplementsDelivery`, from the
  inductive `DeliveryInv`: frames on a connection are its sender's manifest or
  chunks, receipts in flight are the ones issued on that connection, a receipt
  is issued only for landed content, and the file being renamed is the
  manifest's.  The map is the identity on `final`, `landed` and `finished`;
  `RenamePart` is `Land`, the first `ReceiveReceipt` of a sender is `Settle`,
  every other step stutters.
* `IdentitySignsOnce`: `Spec => []OneReceiptPerIdentity`, from `SignerInv`.
  The property is not inductive: one must know that a seed lives in one
  sidecar or one attempt, that its connection's number bounds it, and that the
  sidecar is gone before the seed signs.
* `ResumeSound` and `SidecarNeverAhead`: where all senders offer one content
  and no kill falls between rename and unlink, `[]ResumeIsPrefix` and
  `[]SidecarBacked`, from `ResumeInv`: the `.part` covers the sidecar at all
  times, and is exactly the verified prefix while chunks come in.  Both
  hypotheses are needed, as the two findings show.
* `RecordsKept`: `Spec => RecordKept`, from `KeptInv`: while an attempt runs, the record
  in memory is the one on disk or, when that is missing or of another file, a new one
  without chunks; a sidecar whose `.part` is gone is of a file in place, which is why
  the reset of `HealPart` loses nothing; and only a chunk that matched its leaf is
  written, only a written one recorded.
* `FramesExpected`: `Spec => []NoFrameRefused`, from `FlowInv`: the session waits
  while the receiver loads and heals, starts at the offset it is told, and what is on
  its way from then on is the stretch of the file between what the receiver has read
  and what the session has sent, with `DONE` behind the last chunk.

`FountainDecoder_proofs`, for every field of characteristic two and every number
of blocks, whatever symbols come in whatever order:

* `DecoderReduced`: `Spec => []Reduced`.
* `DecoderCorrect`: `Spec => []DecodesSource`.  The inductive `IInv` says where the
  loops are: the row in hand is zero in the pivot columns already passed, a row to
  be stored leads with one in a free column and is zero in all others' columns, the
  rows already eliminated are zero in the new column, and data equals coefficients
  everywhere.  At rank K every column is some row's (counting), so each row is a
  unit row, and its data is that block.
* `NoSymbolWasted`: `Spec => NothingForgotten`, an action property: no step of `add`
  loses a row that could be added up before it.  The span of a list of rows is the
  least set with the zero row that is closed under adding multiples of them
  (`SpannedFacts`), so a step keeps it if each old row can be had from the new ones
  (`StillSpanned`); `Eliminate` and `Normalize` undo themselves, and a row dropped
  as dependent is zero.

`CodedTransfer_proofs`, for any number of blocks, symbols, acknowledgements and
losses, and any code whose rank grows by at most one with each symbol:

* `RanksSound`: `Spec => []RankSound`.  The rank of what the receiver holds only
  grows, so a report that comes late is too low, never too high.
* `AcksStop`: `Spec => []AckStops`, from `AckInv`: while the sender has not stopped,
  the acknowledgements on their way and the losses make up at least the number
  sent.  When none is left to send and none on its way, all of them were lost.

`Labs_proofs`, *receipts*, for every input and every set of channels and bodies:

* `LedgerTypes`: `LedgerSpec => []LedgerTypeOK`.
* `LedgerInvariant`: `LedgerSpec => []LedgerInv`: of the receipts seen so far, `best` is
  the latest verified one of each channel, one is remembered of each slot, and the
  channels set apart are exactly those that contradict themselves.  The last needs
  the second: that only the first receipt of a slot is kept loses no contradiction,
  because what differs from a later one differs from the first or the first
  differs from what it contradicted (`ContradictedOneMore`).
* `AggregateExact`, `AggregateStrict`: `[]ClaimsExact` and `[]StrictExact`.

`Labs_proofs`, *log*, for any numbers of signers, appends, copies and commitments, and
any threshold:

* `NoncesSafe`: `FrostSpec => []NonceUsedOnce`, from `NonceInv`: every nonce that is
  held or used belongs to its signer and is numbered within what that signer made,
  and none that is held has been used.  `ThresholdSign` needs a lemma of its own
  (`NonceInvAtOnce`): some signers commit several times at once, and some of those
  sign with the last nonce.
* `HeadsSafe`: `FrostSpec => []HeadsSigned`, from `HeadsInv`: the signature a call
  carries is of the tree the call was opened for, and enough shares exist for it.
  `Land` compares that tree with the copy as it is then, which is why overlapping
  appends cannot put a signature over another tree.
* `FailuresHaveReasons`: `FrostSpec => []FailureExplained`, from `CallsInv`: a call's
  list is sorted and of commitments really made, a share that answers it has a
  nonce no older than its signer's in the list, what a signer holds is its newest, and
  the tree to be signed is one block longer than the copy was, which only grows.
  That the order of the signers does not matter is `SortedList`: any arrangement
  of commitments of different signers is sorted into the same list.

`Labs_proofs`, *handshake*, for any lists of modes and keys of other sessions:

* `HandshakeAgrees`: `HsSpec => []KeysAgree`.  `DigestBinds` says that lists with one
  digest have the same modes; equal session keys have equal digests, so both sides
  negotiated from the same two lists.

`Labs_proofs`, *signatures*, for any owners and roots, and anything made in any order:

* `HybridNeverFooled`, `LevelsNeverMix`: `[]HybridFailsClosed` and `[]LevelsApart`, from
  `PqInv`: what has been made tells its level by its length, and the length alone
  keeps a level from being taken for another.

`Apps_proofs`, *pages*, for any numbers of files, receives and chunks:

* `PagesTell`: `WebSpec => []PagesAgree`, from `PageInv`: a receipt on the wire is of
  a receiver that verified, and only a receiver past the gate has taken chunks.

`Apps_proofs`, *trials*, for any number of trials:

* `TrialsTrue`: `TrialSpec => []TrialTrue`, from `TrialInv`: A says "ok", read or still
  in its pipe, only after B's receipt or write arrived; that exists only if B had
  everything, which `main` does not check itself; and where `main` waits tells what the children cannot have done yet.

`Apps_proofs`, *bench rig*, for every kind of link and a failure at any step:

* `RigReleases`: `RigSpec => []AllReleased`, from `RigInv`: until something fails, what
  is held is what was acquired up to the step at hand; while things are let go, nothing
  is held of the groups already passed; and what is held always has what it uses.

`Apps_proofs`, *bench gate*, for any repetitions, retries, samples and baselines:

* `VerdictTrue`: `GateSpec => []VerdictExact`, from `GateInv`: a bench's values
  are folded from every repetition there was of it, one that is not queued again fails
  no gate, and one that still fails has had three batches.  More repetitions only
  better the fold, and a better value fails no gate that a worse one passes (`RegressedMore`).

`SecureSession_proofs`, for any scripts, passphrases and high-water mark, and a stream
cut anywhere:

* `SessionInvariant`: `Spec => []SessionInv`.  What a side has read, its queue, its
  buffer and what the socket still carries are, put together, a prefix of the bytes of
  the frames its peer wrote; those are determined by how far the peer's function has
  come; and a side past the handshake has the key of what it read.  `Pull` is
  a recursive function that cuts frames from the buffer; what it yields is shown
  by induction on the length of the buffer (`PullCarries`).
* `FramesStayIntact`, `GateHolds`, `NoncesOnce`: `[]FramesIntact`, `[]AuthGate` and
  `[]NonceOnce`.  A nonce is a side and a counter, and the sealed frames of a side are
  numbered by their place; `GateHolds` follows a sealed frame back to the
  confirmation that was read before it.

`SyncDB_proofs`, for any finite set of peers, any keys and values, and any edits exchanged
in any order:

* `SyncInvariant`: `Spec => []SyncInv`.  Every clock is closed under what its nodes refer
  to; a peer's `order` is `Linear` of its clock; its `states` are what applying that order
  gives.  The second half is the one that matters: the code never applies from the
  start but truncates and applies again (`KeptPlaces`, `OrderKept`).  `LinearOrders` says
  that `Linear` lists each node once and behind all it refers to.
* `ConvergedAlways`, `CausalWinsAlways`, `NothingLostAlways`: `[]Converged`,
  `[]CausalWins` and `[]NothingLost`, from `SyncInv` by following a key through an
  order to the last node that changed it.

`Riblt_proofs`, for any finite set of elements, any mapping, number of cells and budget,
and any order, repetition or loss of symbols:

* `NothingLeftToPeel`: `RibltSpec => []PeelComplete`, from `BaseInv`: a pure cell is
  queued until it is looked at, unless the budget has ended everything.
* `DifferenceFound`: `[]DifferenceExact` if no element is given to the encoder twice
  (`MaxCopies <= 1`) and the stream has at least one symbol (`FirstEnd >= 1`).  From
  `DiffInv`, the peeling invariant: a cell holds exactly those elements of the
  difference that map to it and have not been recovered, and its count is
  theirs less ours.  Findings 3 and 4 are the two hypotheses not holding: the runs
  `riblt_empty` and `riblt_multiset` violate a part of the same property without them.

The assumptions are the named ASSUMEs of the modules, each of which TLC evaluates.

* `Filedrop`: contents are non-empty sequences of chunks, the bounds are naturals,
  `None` is no other value.
* `SecureSession`: a script is a sequence of operations with frames of at least one
  unit, no message type of a script is one of the handshake's, `None` is no message.
* `SyncDB`: the peers are finitely many, the founder is one, ranks differ, `None` is no
  entry of a view.
* `ReceiptLedger`: the inputs are sequences of receipts.
* `FountainDecoder`: there is a block, and the field's laws, which the run
  evaluates for the product of `gf.js` at width two.
* `CodedTransfer`: the bounds are naturals, the cap is no less than the number of
  blocks, an acknowledgement is sent at least once, and the law of the rank.
* `Riblt`: the elements are finitely many, there is a cell, the bounds are naturals.
* `FrostLog`: what `validateConfig` checks, and that no nonce is `NoNonce`.
* `HybridHandshake`: lists are sequences of strings, keys of other sessions are other keys.
* `PqCrypto`: junk is no key and no signature, an exception is no answer.
* `WebDrop`: there is a chunk, and the wrong passphrase is nobody's.
* `NetTrial`: there is a trial.
* `BenchGate`: samples are numbers or missing (an efficiency may be infinite), a
  baseline file holds numbers or null.

Induction over data.  The library's induction theorems cannot be used with the
installed provers, so `SecureSession_proofs`, `SyncDB_proofs` and
`FountainDecoder_proofs` state induction for a set of naturals (`Induction`, from the
well-foundedness of `<`) and apply it to the set of lengths for which a claim holds:
what `Pull` yields, what applying an order gives, what rows span.

Only model-checked: the liveness properties, since liveness under fairness is outside
what TLAPS proves: `SteadyReceiveCompletes`, `ReceiptSettles`, `CutReleases`,
`SamePassCompletes`, `OtherPassFails`, `EventuallyOneView`, `Completes`, `Ends`,
`ButtonComesBack` and `TrialEnds`.  Every invariant and every action property of the
passing runs is a theorem: `ResumeIsPrefix`, `SidecarBacked` and
`DifferenceExact` under the hypotheses named above, the others for all constants.
The properties of the violation runs are false, and are there to show how.  The type
invariants are not run again where they are proved; those of `SecureSession`, `SyncDB`,
`CodedTransfer` and `Riblt` state the types for the reader, and the proved invariants
contain what the proofs need of them.

## 6. Not modelled

Listed per component in `PROJECT.json`.

* Two receivers in one output directory (`apps/filedrop/index.js:204`).  They share
  `.part`, sidecar and `.tmp`, and an open descriptor follows the file through the
  rename; it needs a model of descriptors and inodes that the single-receiver
  modules do not have.
* The pure I/O: the command line, argument parsing, printing, the static files of
  the gateway, the statistics and path classification of the trials.
* Cryptographic primitives and the external libraries (Autobase, Hyperbee,
  hypercore, hyperdht), modelled as what the code relies on.
* Encodings: the manifest codec, passphrases, leaf hashes, the coefficient hash.
  The logarithm tables of `gf.js`, and byte accounting in the coded transfer.
* `Encoder.add` after `produceSymbol` in `hypercore-riblt` (115): no line of the code
  says what it promises.  Cells invented by a hostile peer in `Riblt` (the code
  itself promises no more than a bound on the work), and symbols without an index.
* What a benchmark measures: counters and clocks of external code.
* Tools, CI and patches: shell scripts, and changes to external packages.
