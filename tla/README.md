# Clive: a verification project

Clive is an operating system environment written in a dialect of Go (the *lsub* compiler, whose
channels can be closed from either end, with an error, and tell a sender that they were closed).
Everything in it talks through such channels: file systems, commands, the shell and the editor.
This project models the parts where concurrency, failure, flow control and caching meet: the
multiplexed streams everything goes through (`ch`), the caching file system (`zx/zxc`), the replicas
of file trees (`zx/repl`) and the text that the editor keeps (`txt`). It checks them with TLC on
small instances, and proves the central properties of the streams, of the cache and of the text with
TLAPS for every instance.

## Inventory of the system

| Part | State it keeps | Operations | Interacts with |
|---|---|---|---|
| `ch` Mux (`ch/mux.go`) | map of tags to connections; per connection `in`, `out`, `flow` channels; credit in `out`, count in `flowproc` | `Out`, `Rpc`, `Close`; goroutines `out`, `flowproc`, `demux` | the device (a peer's Mux), users of `Conn` |
| `ch` Conn (`ch/conn.go`, `ch/ch.go`) | two channels, a device, a wait group | `NewConn`, `NewPipe`, `NewPipePair`, `ReadMsgs`, `WriteMsgs`, `Merge`, `GroupBytes` | the device, users |
| `zx/zxc` | tree of cached files with a status each, dirty lists, invalidations | all of zx (stat, get, put, move, link, remove, wstat, find), `Sync`, `Close`, the syncer goroutine | the remote file system, its users |
| `zx/rzx` | connection (Mux), trees served, `closed`, `closewc` | client calls, `Redial`, `Close`; server loop per Mux | `ch.Mux`, `net`, `zx` |
| `zx/repl` | database of what each replica last saw | scan, compare, `PullChanges`, `PushChanges`, merge, resolve, apply | two zx file systems |
| `txt` | text in pieces, marks, log of edits, the position `Getc` was at | `Ins`, `Del`, `MarkIns`, `MarkDel`, `DelAll`, `Undo`, `Redo`, `DropEdits`, marks, `Get`, `Getc` | `ix`, `net/ink` |
| `net` | listeners | `Dial`, `Serve`, `MuxDial`, `MuxServe` | `ch`, `net/auth` |
| `work` | channel of calls, `closed` | `Go`, `Call`, `Close`, `Wait` | - |
| `ns`, `mblk`, `sre`, `zx/pred`, `zx/zux`, `zx/zxfs`, `fuse`, `net/auth`, `cmd`, `cmd/*`, `net/ink` | see `PROJECT.json` | | |
| `x`, `net/ink/js` | vendored code and assets | | |

What is hard in it, and what makes each part correct:

* **Mux**: four goroutines per stream on two machines, plus one `demux` for all streams. Streams
  must be delivered in order and whole or be reported as cut; one reader that stops must not stop
  the others; closing must wake everyone; one side's streams must not be taken for the other's.
* **Conn**: the same promise for a single stream per direction, over devices that differ in how
  they close.
* **zxc**: a put that receives data with the file unlocked races removals, invalidations and the
  syncer; a file's status must tell what the server still lacks.
* **rzx**: every call must be answered or fail when the connection does; `Redial` and `Close` race
  with the goroutine that notices the hang up.
* **repl**: what a database says of a replica must never hide that the other one differs, whatever
  was edited while a command ran, failed or died; and sync after sync must make them the same.
* **txt**: undoing the log brings the text back, whatever edits were merged; marks stay between the
  runes they were between; the cached position is never one in pieces that are gone.
* **net**, **work**: a channel closed at one side while the other sends.

`PROJECT.json` lists each hazard with its line.

## Modules

| Module | What it is |
|---|---|
| `LsubChan` | channels of the lsub compiler as the sources use them (not part of the repository) |
| `Stream` | abstract specification: what one direction of a connection promises its two users |
| `Mux` | `ch/mux.go`: two Muxes on one device; one action per stretch of a goroutine |
| `MCMux` | instances of `Mux`, and the refinement mappings to `Stream` |
| `LsubChanProofs` | lemmas on channels: what each operation does to their types |
| `MuxProofs` | `TypeCorrect`: the types, for every instance |
| `MuxFlowProofs` | `OneWayFlow`: the flow control of one-way streams, for every instance |
| `MuxRpcProofs` | `RepliesAreReplies`: no reply is taken for a new stream, unless someone gives up |
| `Conn` | `ch/conn.go` with `ReadMsgs` and `WriteMsgs`: two Conns on one device, or a pair of pipes |
| `MCConn` | instances of `Conn` |
| `ConnProofs` | `TypeCorrect`; `HupIsLast`: `hup` is closed after both goroutines ended; `StreamImplemented`: each direction implements `Stream` |
| `Zxc` | `zx/zxc`: the cache of the files of a directory, its users, the syncer, the server and its other clients |
| `MCZxc` | an instance of `Zxc` |
| `ZxcProofs` | `TypeCorrect`, `CleanAreSynced`, `StaleAreDetected` and `RemovedAreLeft` |
| `Repl` | `zx/repl` and the commands `zxsync`, `zxpull`, `zxpush`: two replicas, their databases, and a command at a time |
| `MCRepl` | the trees that the instances of `Repl` use |
| `ReplProofs` | `TypeCorrect`, and `QuietMeansSame`: the databases never hide a difference |
| `Undoable` | abstract specification: what a text with undo promises |
| `Txt` | `txt`: the text in pieces, edits, marks and `Getc`, and the refinement mapping to `Undoable` |
| `MCTxt` | an instance of `Txt` |
| `TxtProofs` | `TypeCorrect`, `SeekIsRight`, `MarksAreKept`, and `UndoableIsImplemented`: the text implements `Undoable` |

### How `Mux` corresponds to the code

An *end* is a side and a tag: the `conn` that side has for that tag. `mapped` are the ends in
`Mux.tags`; `inq`, `outq` and `flow` are the channels of the `conn`, `uin` the unbuffered channel
`flowproc` hands messages through, `minq` is `Mux.In`. Tickets carry nothing, so `flow` counts
them, and `pending` counts the goroutines `demux` starts to send one. `op`, `fp` and `dm` are where
the goroutines `out`, `flowproc` and `demux` are and what their local variables hold. `wire` is what
was written to the device and not read; it takes any amount, as an operating system pipe or socket
with an attentive `demux` does (the comment of `NewMuxPair` on `io.Pipe` tells why one that does not
is not used).

A goroutine's step ends where it may block or where others can see what it did. `out` is
`OutFirst` (first ticket), `OutRecv`, `OutCredit` (another ticket), `OutWrite`, `OutEnd`, `OutDrop`
(`closeConn`); `flowproc` is `FlowRecv`, `FlowPost` (with the user's receive), `FlowQuit`,
`FlowGrant`; `demux` is `ReadMsg` followed by what it does with the message, in one step unless it
blocks (`DemuxAccept` and `DemuxDeliver` are the sends). `wlk` makes each write one step; what is
done under `lk` is one step.

The data is reduced to what the properties tell apart: the k-th value a user sends is the number k.
An error is a bit. Tags are not reused. `UserMay` says what else the users and the device do, so
that each run chooses among: a reader closing its channel, a writer closing with an error or before
sending anything, closing the Mux or `Mux.In`, opening streams after that, values that fail to
encode, and a device that breaks.

### How `Conn` corresponds to the code

`wr` and `rd` are the goroutines started by `NewConn` or `NewPipe`. The device is one of three kinds,
chosen at the start: *half* implements `CloseRead` and `CloseWrite`, *whole* only `Close`, *pipe* is
`io.Pipe`, where a write ends when it is read and the writer can close with an error that the reader
gets. `wend` and `rend` are what each side closed. A broken device passes nothing on, not even an
end. The tail of each goroutine (closing the device and the channel, neither of which blocks) is one
step.

### `Stream`

`Send`, `CloseWriter`, `Deliver`, `End` and `Cut`. The reader gets the next value in order, sees a
clean end only if the writer closed with no error and all was delivered, and otherwise is told of an
error. Values that can't be encoded (`Lost`) are skipped: `WriteMsg` says so (`ErrDiscarded`).
The mapping of `Mux` maps a callee that has already closed its reply to a reader that no longer
cares, since `out` closes the whole connection then; the one of `Conn` does the same on a *whole*
device when the peer stopped reading, which the comment of `NewConn` documents.

### How `Zxc` corresponds to the code

`child` and `dsts` are the child map and the status of "/", `file` the `mFile`s, among them those
that are no longer in the map but that a call or the syncer has a pointer to (they are what makes
removing and making again a file hard); those that nobody can reach are collected. The operators
`inval`, `dirtyMeta`, `gotMeta`, `gotData`, `del`, `gone`, `newFile`, `putEnd` have the names of
the functions of `cache.go` and do to a file what they do to the `mFile`.

A call is two or three steps, cut where the code unlocks. `WalkDir`, or `GetDir` and `GotDir` when
the entries of "/" must be fetched (with "/" locked, `rlock`), find the file or make it, and unlock
"/". Then the file is locked and the call does what it has to, with or without refreshing metadata
that may have timed out: `Stat`, `Wstat`, `Remove`, `Get`, `Put`, `Fail`. A put goes on with the file
unlocked: `Recv` for each message, and `PutEnd`. `held` is false once `gotData` has given the file
another buffer than the one the put has. `SyncDir` takes the children and `SyncFile` sends each one,
locked all along; `SyncFails` and `ReplyLost` are the failures, after which the syncer redials.

Data is the sequence of who wrote each message. Timeouts of metadata are a choice in each walk.

### How `Repl` corresponds to the code

`fs` are the files of both replicas, `saved` the databases on disk, `db` those in the memory of the
command, `todo` the two streams of changes it found. `Run` loads, scans and compares (`changes` is
the recursive walk of `cmp.go` written as a set of paths and the order in which they are sent);
`ApplyAll` takes the next change out of `merge` and `resolve` and makes it, with `applyMeta`,
`applyDel`, `applyData` and `applyAdd`, which change the files of the target and both databases;
`Save` has two steps, one per file. Users edit both replicas at any time, also between changes.

`Faults` are the ways a change may fail: the target can't be reached (*none*), it can but the reply
is lost (*lost*), the data can't be read from the source halfway through (*get*, and *getall* for
`PullAll` and `PushAll`; *add* for added files), the command dies (*crash*, *torn* between the two
renames of `Save`). The data of a file is the time it was written and 0 for what is not any version.
All files have the same size, so that it is the mtime that tells that data changed. Users edit at
even times and commands run at odd ones, so that an edit always has an mtime of its own.

`over` is not in the code: it holds the files that `applyMeta` set attributes of when their data was
not that of the source. The mtime is set too, so that nobody can tell (`repl_hidden`): it happens if
a user writes the file after the scan, in blind pulls and pushes, and when the change of attributes
wins a conflict. `QuietIsSame` says that this is the only way in which a difference is hidden.

`PullAll` and `PushAll` after a failure are left out, since they compare mtimes, and so are the faults
*add*, *getall* and *torn*: `QuietIsSame` is known to fail with them, and nothing in the comments says
they should work. Each is listed as a hazard.

### How `Txt` corresponds to the code

Each operation locks the text and is one step. `data` are the pieces, and `ins` and `del` work on
them as in the code: insertion at the end extends the last piece, elsewhere it splits one, deletion
drops those left empty. `seek` is the piece and position of the last `Getc`. Runes are numbered as
they are inserted, so all are different and can be told apart after any sequence of edits.

`Undoable` keeps whole versions of the text. The mapping computes them from the edits kept: those
before the present text by undoing them, those after it by doing them again; that is what makes the
refinement say something of `addEdit`. Users do not make a deletion that `Skips`: one that starts
just as far from the last one as its size is merged with it, though the runes between them are still
there, and undoing both at once makes another text ("abc", delete *a*, delete *c*, undo). No comment
speaks of it; it is listed as a hazard. Insertions and deletions of no runes are left out.

## Runs

| Run | Checks | Shows |
|---|---|---|
| `mux_out` | `TypeOK`, `OneWayNeverBlocks`, `OutIsStream` | one-way streams under every interference there is, device failures included |
| `mux_rpc` | `NoPhantom`, `RequestIsStream`, `ReplyIsStream` | requests and replies of an Rpc, readers may give up |
| `mux_live` | `Delivery`, `Hangup` | under fairness streams get to their end, and a hang up reaches all goroutines |
| `mux_phantom` | `NoPhantom` is violated | the reply to an Rpc that was cut opens a connection at the caller |
| `mux_stall` | `NeverBlocks` is violated | a reply nobody reads stops the caller's `demux`, and so all of its streams |
| `conn` | `TypeOK`, `ConnIsStream`, `ReaderEnds`, `HangsUp` | both directions are streams on the three kinds of device; under fairness readers get to the end and `hup` is closed, when it should |
| `conn_encode` | `ConnIsStream` is violated | a value that fails to encode truncates the stream, and the peer is not told |
| `zxc` | `TypeOK`, `CleanIsSynced`, `StaleIsDetected`, `RemovedIsLeft`, `EventuallySynced` | two calls on a file under all the interference there is: the cache does not lie, and the server gets what is dirty |
| `repl` | `TypeOK`, `QuietIsSame`, `EventuallySame` | databases never hide a difference, but for the files in `over`; syncing makes the replicas the same |
| `repl_hidden` | `QuietIsAllSame` is violated | attributes set over new data make it look old: the replicas differ and there is nothing to sync |
| `repl_conflict` | `ConflictsEnd` is violated | a removal and a change of mode: the removal is given too early a time, the change wins and can't be made, for ever |
| `txt` | `TypeOK`, `SeekOk`, `IsUndoable`, `MarksKept` | undo and redo go through the versions there were; marks and `Getc` stay right |

**Bounds.** `nbuf` is 2, the least the code permits, so that half of it is one message: each message
takes a ticket and is granted one, and three messages exhaust the credit; `mux_out` sends five (one
of them discarded), so that credit is used up and granted again more than once. `Mux.In` holds one
connection instead of ten. A stream is checked alone: streams share `wlk`, the device, and `demux`,
and only the last one can make one wait for another, which is what `OneWayNeverBlocks` denies, and
the proof does for any number of them. `Conn` uses channels of one message and three values in one
direction, so that the channel, the device and the goroutine can all hold one; the other one is only
closed. `StreamImplemented` is for values in both.

`Zxc` has one name, two users and two calls of any of six kinds, one message per put, one change by
another client, one invalidation and one failure. Two calls and the syncer are what the hazards need:
a put and a removal, a removal and a file made again, a put and a sync. Files are synced by goroutines
that share only the connection, so a second name adds states and no interaction. There are four
`mFile`s for the name, which is never too few: two calls, the child map and the syncer.

`Repl` has a directory with a file in it and another file beside it, three edits of either replica at
any time, one command other than `zxsync`, and one failure, with as many syncs as there is something to
do. Three edits give conflicts of two kinds of change with a third one made while they are being
applied, or that makes one of them look later. That command is `PushAll` in the run, for time; two
files and all the commands were checked apart, and `QuietMeansSame` is for all of them.

`Txt` has pieces and edits that are full at two runes (512 and 1024 in the code), three runes in all,
and four changes, so that pieces split, edits are merged, are too long to be merged, and are undone,
redone and dropped.

**Deadlock** is not checked: every system here may stop, once all that was sent is read and users do
nothing else. What must not stop is stated as liveness.

**Fairness.** `FairSpec` has weak fairness of each step of the goroutines, which is what the Go
scheduler gives to a goroutine that can run, and of users receiving (and taking new connections).
Nothing is assumed of users sending or closing, nor of the device. Without fairness of the readers
`Delivery` is false, and should be.

In `Zxc` steps of calls, of the syncer and of its goroutines are fair, which again is the scheduler
and a timer; a put's data ends, as its user promises; and redialing works in the end, since the
syncer tries for ever and the property is about what follows when it does. Starting calls, receiving
messages, failures and other clients are not fair. In `Repl` it is assumed that a command that runs
goes on, and that `zxsync` is run again while there is something to do, as users of a replica do.

## Proofs

`TypeCorrect` (`MuxProofs`): `Spec => []TypeOK`, with no assumption but `MuxAssumption`. It is
inductive once strengthened with "when `out` is about to write it has credit" (`TypeInv`).

`OneWayFlow` (`MuxFlowProofs`): `Spec => []OneWayNeverBlocks` for all sets of tags, all `nbuf` from 2
up, any number of messages, and everything users and the device may do. The property is far from
inductive: it speaks of the reader's channel, and is true because of credit held by a goroutine at
the other machine. `FlowInv` adds, for each one-way stream:

* `Roles`: only the writer's end runs `out`, only the reader's runs `flowproc`, and what goes back is
  grants;
* `Firsts`: one message has the first bit, it makes the connection, and nothing follows the end;
* `Queue`: what `out` takes is numbered in order, one after the other;
* `Data`: messages in flight are numbered above those that arrived, in order, and not above twice a
  half plus what the user of the reader has seen;
* `Credit`: while `flow` is open, what `out` has taken, may still send, and its tickets (also those
  pending) permit add up to no more than twice a half plus what the reader has seen, less what
  `flowproc` has counted and not granted; each grant in flight stands for one half less of it. A grant
  carries, in the model only, how many messages had been seen, which is what orders them.

A message that finds `conn.in` full would be the (nbuf+1)-th not seen, which `Data` excludes. There is
one lemma per action and stream: steps of other streams leave a stream alone, and each step of this one
preserves each conjunct it touches.

`RepliesAreReplies` (`MuxRpcProofs`): `Orderly => (Spec => []NoPhantom)`, for any number of streams,
one-way ones and Rpcs. `mux_phantom` shows that `NoPhantom` is false if a user closes with an error,
so the theorem says what must not happen for it to hold: `Orderly` is `UserMay \subseteq {"quit",
"empty", "late"}`, that is, nobody closes a stream that waits, nor with an error, nor a Mux; the
device does not break; values can be encoded; and no Mux refuses a new stream. Readers may give up.
None of these can be left out: TLC finds a phantom with each of them alone (with one stream, or two
for a Mux that refuses one). The invariant is `PhantomInv`: that of one-way streams, both Muxes up
(`Calm`), and for each Rpc that the caller's end is in its `Mux.tags` until the first message of the
reply was read, since only that message would make a connection. The end is dropped only when `out`
sends an error, which comes from `conn.in`, and `conn.in` gives one only to what comes in it.

**`Conn`.** `TypeCorrect` and `HupIsLast` (`ConnProofs`): `hup` is only closed once the goroutines of
that end are done, and so once the writer told the device and closed its channel: it is why waiting
for it is enough to know that nothing more is written. `StreamImplemented`: each direction implements `Stream`, on all three devices, for all sizes of channels and numbers of values,
if `FailsOn \subseteq {"pipe"}`. The hypothesis is what `conn_encode` shows to be needed: on the other
devices a value that fails to encode truncates the stream. `StreamInv` says, per direction, that the
values that left the writer (in the device, in the reader, in `inq`) are a chain that goes from the
last value the user has seen up to what the writer has passed on, with gaps only where values can't
be encoded (`InOrder`, `OnItsWay`); and that an end follows the last of them, or says it is an error
(`Ending`, `Receiving`). Each step then is one of `Stream` or a stutter.

**`Zxc`** (`ZxcProofs`), for any number of files, users, calls, changes and failures, and with no
assumption but that of the constants:

* `TypeCorrect` needs `OpInv`: who fetches `/` has its entries, who works on a file has one of that
  name.
* `CleanAreSynced`: `CleanIsSynced` says nothing of the files that were dropped and that sync may
  still send, and those are what could undo what the server has. `SyncInv` adds that sync took one
  file per name (`OneEach`); that one which is no longer the child is sent where the server has
  nothing, or before the child is (`Replaced`); that one which is gone is not at the server (`Left`);
  and that entries fetched while sync is at it are still those of the server (`Fetched`).
* `RemovedAreLeft`: no other file can be the child, nor come back, while a call has the name.
* `StaleAreDetected`: comparing the mtime and size is enough to see that the server has other data,
  but in the one step that the property names. Of times, it needs that they only go on (`Clocked`).
  Of the files dropped and still to be sent, that they have dirty data only with an mtime that nobody
  else has (`Own`), or while they are being made (`Making`): this is `StrayInv`.

**`Txt`** (`TxtProofs`), for any sizes of pieces and edits and any alphabet. `TxtInv` places the
pieces, bounds the edits and the cached position, and says that there is a history `g`: versions of
the text, one per edit, each got from the one before by that edit, the current one among them, and
each with runes that are all different. That it exists is what makes undo right, and that the runes
are different is what tells a mark between two of them from a mark elsewhere. From it:
`TypeCorrect`, `SeekIsRight` (the position `Getc` caches is that of its rune), `UndoableIsImplemented`
(merging edits and undoing part of them goes through versions there were) and `MarksAreKept`.

The operators on pieces are recursive functions. What they compute is proved by induction without a
theorem that takes an operator as a parameter: the set of numbers where a fact fails has a least
element, since `<` is well-founded on the naturals, and there is none for that one.

**`Repl`** (`ReplProofs`), for any tree, edits, commands, and numbers of them:

* `TypeCorrect`, whatever fails. It needs that trees are trees (`GoodTree`: what exists is in a
  directory; `GoodDB`: the root is known) after every change made, an `Add` that put only some of
  what it found included, and that nothing is of a later time than now (`Timely`).
* `QuietMeansSame`: `Faults \subseteq {"none", "lost", "crash"} => (Spec => []QuietIsSame)`. `QuietInv`
  says that both databases are the same, but while they are being saved (`Known`), and that two files
  of the same path and mtime have the same data, but those in `over` (`Agree`). Users keep the second
  since they write at a time that no file has; commands, since what they put is data of the other
  replica, and who sets only the attributes adds the file to `over` if its data is not. Then, with
  nothing to sync, on a path with no errors everything is known and as it was, from the root down: a
  first file that is not would be a change. Known the same, it has the same type, mode and mtime in
  both replicas, and so the same data. The proof is by the shortest path of those that would not do.

  The hypothesis leaves out four failures. With *add*, *getall* or *torn* the property is false: a copy
  that could not be read, or only one of the databases saved, is what hides a difference. With *get*
  `Agree` is false, a file that is of no version has the mtime of one, and what makes up for it is
  that no database has noted it yet: that stays with the run `repl`, which has it.

**Only model-checked**: liveness (`Delivery`, `Hangup`, `ReaderEnds`, `HangsUp`, `EventuallySynced`,
`EventuallySame`), which needs fairness and is out of the prover's reach; that the streams of `Mux`
implement `Stream` (`OutIsStream`, `RequestIsStream`, `ReplyIsStream`), of which `OneWayFlow` proves
only that messages come in order and fit; and `QuietIsSame` when data can't be read.

## What the runs found

* A reply that comes after its caller was cut opens a connection nobody asked for (`mux_phantom`).
* A reply that nobody reads stops all the streams of a Mux (`mux_stall`).
* A value that fails to encode cuts a stream, and the peer is not told (`conn_encode`).
* `zx/repl` gives a removal the mtime of the wrong directory: it loses conflicts it should win, to a
  change that can't be made, and syncing never ends (`repl_conflict`). `EventuallySame` is stated for
  the rest, with `CantApply` saying exactly which conflicts those are.

* The databases of `zx/repl` can hide a difference: setting attributes sets the mtime too, on data it
  was not meant for (`repl_hidden`). That a conflict is enough, with no edit during the command, came
  from preparing the proof of `QuietIsSame`, which was false with two files in a directory.
* Closing is not the only thing that makes a reply open a connection: `NoPhantom` also breaks when a
  user closes a waiting stream, the device breaks, a value fails to encode, or a Mux that is closing
  refuses one. This came from looking for the hypothesis of `RepliesAreReplies`.
* A stale file can go unnoticed: sync sends part of the data of a file that `newFile` made, that
  `gotMeta` gave the mtime of the server, and that `gotDir` dropped, while another file with the same
  mtime and size is clean in the cache. It takes three users, four calls and two changes by other
  clients, more than the runs have: it is a proof that did not go through that showed it, and
  `StaleIsDetected` names that step as the only one where it happens.

`PROJECT.json` quotes what the comments say of the first five.

## Not modelled

`PROJECT.json` gives the reason for each part. In the parts that are:

* `ch`: the layout of messages, the wrap-around of tags after 2^27 connections, the text of errors,
  debugging output, and the errors of `ReadMsg` on a message that is too large or that can't be
  decoded, which are those of a device that breaks; `Merge` and `GroupBytes`.
* `zx/zxc`: `Move`, `Link`, directories below the root, `Find`, `Close`, the requests of `Ctl` but
  *inval*, the *writesync* flag, calls of `Sync` that run along with the syncer (an older file of a
  name may then be sent after the newer one), permissions.
* `zx/repl`: exclusions, `MoveTo`, `DumpTo`, owners; the channels between the goroutines of `merge`,
  `resolve` and `changes`, which only pass changes on; the cache of the last parent in `DB.Add`, which
  is never stale because adding an ancestor replaces it.
* `txt`: `Get` and the operations that only read; texts that keep no edits; edits of no runes.

Vendored packages (`x`), `net/ink/js`, and the programs that only read a channel and write another
are most of the lines of the repository and keep no state of their own.

## Plan

1. *Done*: `Mux`, `Stream`, `Conn`, the two theorems on `Mux`.
2. *Done*: `Zxc`, `Repl`, `Txt` with `Undoable`.
3. *Done*: the theorems on `Conn`, `Zxc`, `Repl`, `Txt` and on the replies of `Mux`. Left: that the
   one-way streams of `Mux` implement `Stream`, from `FlowInv` and the chain of `StreamInv`;
   `QuietIsSame` with *get*, from what the database does not say of a file that was not copied.
4. `Rzx`: calls over a connection that fails; `Redial` and `Close` with the goroutine that waits for
   the hang up.
5. `Move` of `Zxc`, which needs directories below the root; `GroupBytes`, `serveMuxBoth`.
