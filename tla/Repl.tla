-------------------------------- MODULE Repl --------------------------------
(***************************************************************************)
(* zx/repl: a tree kept in two replicas, "local" and "remote".  Users edit *)
(* both; the commands zxsync, zxpull and zxpush load what is known of each *)
(* replica (its DB), scan both, plan the changes to be made, make them one *)
(* by one, and save the DBs.                                               *)
(*                                                                         *)
(* A path is a sequence of names, and <<>> is "/".  All files have the same*)
(* size: it is the mtime that tells that data changed.  Users edit at even *)
(* times, later than anything done before, and commands run at odd times.  *)
(* A change is made in one step.  Exclusions are left out.                 *)
(***************************************************************************)
EXTENDS Integers, FiniteSets, SequencesExt

CONSTANTS
    Paths,      \* all the paths but "/"; names are numbers
    Initial,    \* types of the files there are at first
    Edits,      \* what users may do
    Editors,    \* the replicas they edit
    MaxEdits,   \* bound: times they do so
    Commands,   \* what they may run other than zxsync
    MaxCmds,    \* bound: times they do so
    Faults,     \* what may fail
    MaxFaults,  \* bound: failures and crashes
    None        \* no file

ASSUME ReplAssumption ==
    /\ Paths \subseteq Seq(Nat) /\ IsFiniteSet(Paths)
    /\ \A p \in Paths : p # <<>> /\ (Len(p) > 1 => Front(p) \in Paths)
    /\ DOMAIN Initial \subseteq Paths /\ Range(Initial) \subseteq {"-", "d"}
    /\ \A p \in DOMAIN Initial : Len(p) > 1 =>
            Front(p) \in DOMAIN Initial /\ Initial[Front(p)] = "d"
    /\ Edits \subseteq {"write", "mkdir", "rm", "chmod"}
    /\ Editors \subseteq {"local", "remote"}
    /\ Commands \subseteq {"pull", "push", "blindpull", "blindpush", "pullall", "pushall"}
    /\ Faults \subseteq {"none", "lost", "get", "getall", "add", "crash", "torn"}
    /\ {MaxEdits, MaxCmds, MaxFaults} \subseteq Nat

Sides == {"local", "remote"}
Other(s) == CHOOSE x \in Sides : x # s
All == Paths \cup {<<>>}
Below(p) == {q \in All : IsStrictPrefix(p, q)}
Children(t, p) == {q \in Paths : Front(q) = p /\ t[q] # None}

VARIABLES
    fs,         \* the files of each replica
    saved,      \* the DBs as saved in their unix files
    db,         \* the DBs of the command that runs
    cmd,        \* which one it is, and whether it is saving them
    todo,       \* the changes it has still to pull, and to push
    clock,      \* the time of the last edit
    used,       \* how much of the bounds is used
    over        \* history: the files that a command set the attributes of
                \* though their data was not that of the source

vars == <<fs, saved, db, cmd, todo, clock, used, over>>

\* A file of a replica: its data is the time when it was written, 0 for what
\* is not the data of any version of it.
File == [type: {"-", "d"}, v: Nat, mt: Nat, mode: {0, 1}]
\* A file of a DB, with the attributes of its zx.Dir that are used.
Entry == [type: {"-", "d"}, mt: Nat, mode: {0, 1}, rm: BOOLEAN, err: BOOLEAN]
Chg == [type: {"Add", "Data", "Meta", "Del", "DirFile"}, time: Nat, path: Paths,
        d: Entry, at: Sides]

ASSUME NoneAssumption == None \notin File \cup Entry

\* The files of a replica are a tree, and so are those of a DB.
Tree(t) == \A p \in Paths : t[p] # None => t[Front(p)] # None
TypeOK ==
    /\ fs \in [Sides -> [All -> File \cup {None}]]
    /\ \A s \in Sides : Tree(fs[s]) /\ \A p \in Paths :
        fs[s][p] # None => fs[s][Front(p)].type = "d"
    /\ {saved, db} \subseteq [Sides -> [All -> Entry \cup {None}]]
    /\ \A s \in Sides : Tree(saved[s]) /\ Tree(db[s])
    /\ cmd \in {"idle", "sync", "save", "save2"} \cup Commands
    /\ todo \in Seq(Chg) \X Seq(Chg)
    /\ clock \in Nat
    /\ used \in [{"edits", "cmds", "faults"} -> Nat]
    /\ over \subseteq Paths

Use(x) == used' = [used EXCEPT ![x] = @ + 1]
now == clock + 1

-----------------------------------------------------------------------------
(* File trees, as zux keeps them for zx and users.                         *)

TypeAt(t, p) == IF t[p] = None THEN "none" ELSE t[p].type
IsDir(t, p) == TypeAt(t, p) = "d"
\* A directory is touched when something is made in it or removed from it.
Touch(t, p, time) == [t EXCEPT ![Front(p)].mt = time]
CanPut(t, p, type) == IsDir(t, Front(p)) /\ TypeAt(t, p) \in {"none", type}
PutFile(t, p, f, time) ==
    [IF t[p] = None THEN Touch(t, p, time) ELSE t EXCEPT ![p] = f]
RemoveOne(t, p, time) == IF t[p] = None THEN t ELSE Touch([t EXCEPT ![p] = None], p, time)
RemoveAll(t, p, time) ==
    LET left == [q \in All |-> IF IsPrefix(p, q) THEN None ELSE t[q]]
    IN  IF t[p] = None THEN t ELSE Touch(left, p, time)

\* What users do: an edit of replica s at path p.
Edit(s, p, kind, time) ==
    LET t == fs[s] IN
    CASE kind = "write" -> PutFile(t, p, [type |-> "-", v |-> time, mt |-> time,
                                          mode |-> IF t[p] = None THEN 0 ELSE t[p].mode], time)
      [] kind = "mkdir" -> PutFile(t, p, [type |-> "d", v |-> 0, mt |-> time, mode |-> 0], time)
      [] kind = "rm"    -> RemoveAll(t, p, time)
      [] kind = "chmod" -> [t EXCEPT ![p].mode = 1 - @]
CanEdit(s, p, kind) ==
    CASE kind = "write" -> CanPut(fs[s], p, "-")
      [] kind = "mkdir" -> IsDir(fs[s], Front(p)) /\ fs[s][p] = None
      [] OTHER          -> fs[s][p] # None

UserEdits(s, p, kind) ==
    /\ used["edits"] < MaxEdits /\ Use("edits")
    /\ CanEdit(s, p, kind)
    /\ clock' = clock + 2
    /\ fs' = [fs EXCEPT ![s] = Edit(s, p, kind, clock')]
    /\ UNCHANGED <<saved, db, cmd, todo, over>>

-----------------------------------------------------------------------------
(* DBs, and the changes found with them.                                   *)

EntryOf(f) == [type |-> f.type, mt |-> f.mt, mode |-> f.mode, rm |-> FALSE, err |-> FALSE]
Scan(s) == [p \in All |-> IF fs[s][p] = None THEN None ELSE EntryOf(fs[s][p])]

\* Add: only directories keep their children.
Add(t, p, e) ==
    IF t[Front(p)] = None THEN t
    ELSE [q \in All |-> IF q = p THEN e
                        ELSE IF (e.type # "d" \/ e.rm \/ e.err) /\ q \in Below(p) THEN None
                        ELSE t[q]]

PathLess(p, q) ==
    \/ IsStrictPrefix(p, q)
    \/ \E i \in 1..Len(p) : /\ i <= Len(q) /\ p[i] < q[i]
                            /\ \A j \in 1..(i - 1) : p[j] = q[j]

\* changes: what happened to a replica since old was known, new is its scan.
ChgTypeOnce(d0, d1) ==
    IF d0 = None THEN IF d1 = None THEN "ignored" ELSE "Add"
    ELSE IF d0.err \/ d0.rm THEN "ignored"
    ELSE IF d1 = None THEN "Del"
    ELSE IF d0.type # d1.type THEN "DirFile"
    ELSE IF d1.type = "-" /\ d0.mt # d1.mt THEN "Data"
    ELSE IF d0.mode # d1.mode THEN "Meta" ELSE "same"
ChgType(d0, d1) ==
    IF d0 = None THEN IF d1 = None THEN "ignored" ELSE "Add"
    ELSE IF d0.err \/ (d0.rm /\ d1 = None) THEN "ignored"
    ELSE IF d0.rm THEN "Add"
    ELSE IF d1 = None THEN "Del"
    ELSE IF d0.type # d1.type THEN "DirFile"
    ELSE IF d1.type = "-" /\ d0.mt # d1.mt THEN "Data"
    ELSE IF d0.mode # d1.mode THEN "Meta" ELSE "same"
types(old, new) == [p \in All |-> ChgType(old[p], new[p])]
changed(old, new) ==
    LET type == types(old, new)
        walked(p) == \A a \in All : IsStrictPrefix(a, p) =>
            type[a] \in {"same", "Meta"} /\ IsDir(new, a)
    IN  {p \in Paths : walked(p) /\ type[p] \notin {"same", "ignored"}}

\* The sequences of those at a replica: there is one for each tree.  Of the
\* names in a directory those known before come first: they are not sorted.
changes(old, new, at) ==
    LET type == types(old, new)
        metat(p) == IF p = <<>> THEN now + 1 ELSE new[Front(p)].mt
        time(p) == CASE type[p] = "Del"  -> metat(Front(p))
                     [] type[p] = "Meta" -> metat(p)
                     [] OTHER -> new[p].mt
        chg(p) == [type |-> type[p], time |-> time(p), path |-> p,
                   d |-> IF type[p] = "Del" THEN old[p] ELSE new[p], at |-> at]
        isnew(p, i) == old[SubSeq(p, 1, i)] = None
        less(p, q) ==
            \/ IsStrictPrefix(p, q)
            \/ \E i \in 1..Len(p) :
                /\ i <= Len(q) /\ \A j \in 1..(i - 1) : p[j] = q[j]
                /\ IF isnew(p, i) = isnew(q, i) THEN p[i] < q[i] ELSE isnew(q, i)
        sorted(s) == \A i, j \in DOMAIN s : i < j => less(s[i], s[j])
        all == changed(old, new)
    IN  {[i \in DOMAIN s |-> chg(s[i])] : s \in {s \in [1..Cardinality(all) -> all] : sorted(s)}}

\* The changes that a command looks for: to be pulled, and to be pushed.
PullChanges == changes(saved["remote"], Scan("remote"), "remote")
PushChanges == changes(saved["local"], Scan("local"), "local")
Find(c) ==
    CASE c \in {"sync", "pull", "push"} -> PullChanges \X PushChanges
      [] c = "blindpull" -> PullChanges \X {<<>>}
      [] c = "blindpush" -> {<<>>} \X PushChanges
      [] c = "pullall" -> changes(Scan("local"), Scan("remote"), "remote") \X {<<>>}
      [] c = "pushall" -> {<<>>} \X changes(Scan("remote"), Scan("local"), "local")

Run(c) ==
    /\ cmd = "idle" /\ cmd' = c
    /\ todo' \in Find(c) \ {<<<<>>, <<>>>>}
    /\ db' = saved
    /\ UNCHANGED <<fs, saved, clock, over>>
Sync == Run("sync") /\ UNCHANGED used
\* PullAll and PushAll trust mtimes: they are run while nothing has failed.
OtherCommand(c) ==
    /\ Run(c)
    /\ used["cmds"] < MaxCmds /\ Use("cmds")
    /\ c \in {"pullall", "pushall"} => used["faults"] = 0

-----------------------------------------------------------------------------
(* Apply.  A result is the target's files, its DB and that of the source.  *)

Result(t, ldb, rdb) == [fs |-> t, ldb |-> ldb, rdb |-> rdb]
\* The second Add is made only if the first one works.
AddBoth(r, p, e) ==
    [r EXCEPT !.ldb = Add(@, p, e), !.rdb = IF r.ldb[Front(p)] = None THEN @ ELSE Add(@, p, e)]

\* The attributes of the file are set, mtime included.
applyMeta(c, r) ==
    IF r.fs[c.path] = None THEN r
    ELSE LET t == [r.fs EXCEPT ![c.path].mode = c.d.mode, ![c.path].mt = c.d.mt]
         IN  AddBoth([r EXCEPT !.fs = t], c.path, EntryOf(t[c.path]))

applyDel(c, r) ==
    LET e == [c.d EXCEPT !.rm = TRUE] IN
    Result(RemoveAll(r.fs, c.path, now), Add(r.ldb, c.path, e), Add(r.rdb, c.path, e))

\* Data that can't be read from the source (the file was removed, is now a
\* directory, or the connection failed) leaves a file that is not any version,
\* with the mtime of the one there should be.
DataOf(src, p) == IF TypeAt(src, p) = "-" THEN src[p].v ELSE 0
PutData(c, r, v) ==
    IF ~CanPut(r.fs, c.path, "-") THEN r
    ELSE [r EXCEPT !.fs = PutFile(@, c.path, [type |-> "-", v |-> v, mt |-> c.d.mt,
                                              mode |-> c.d.mode], now)]
applyData(c, r, src) ==
    LET n == PutData(c, r, DataOf(src, c.path)) IN
    IF src[c.path] = None \/ ~CanPut(r.fs, c.path, "-") THEN n ELSE AddBoth(n, c.path, c.d)

\* FindGet and a put for each file found.  A file can't be put where there is a
\* directory, nor a directory where there is a file; those not put, and those
\* below them, are noted as errors.  Data of those in bad can't be read, and
\* nobody is told.
applyAdd(c, r, src, bad) ==
    LET in == Front(c.path)
        found == {q \in All : IsPrefix(c.path, q) /\ src[q] # None}
        ok == {q \in found : IsDir(r.fs, in) /\
                \A a \in found : IsPrefix(a, q) => TypeAt(r.fs, a) \in {"none", src[a].type}}
        new == {q \in ok : r.fs[q] = None}
        touched == {Front(q) : q \in new}
        put == [q \in All |-> IF q \in ok THEN [src[q] EXCEPT !.v = IF q \in bad THEN 0 ELSE @]
                              ELSE r.fs[q]]
        noted(t) ==
            [q \in All |-> IF q \in found THEN [EntryOf(src[q]) EXCEPT !.err = q \notin ok]
                           ELSE IF \E a \in found : /\ IsPrefix(a, q)
                                                    /\ src[a].type # "d" \/ a \notin ok
                           THEN None ELSE t[q]]
    IN  Result([q \in All |-> IF q \in touched THEN [put[q] EXCEPT !.mt = now] ELSE put[q]],
               IF r.ldb[in] = None THEN r.ldb ELSE noted(r.ldb),
               IF r.ldb[in] = None \/ r.rdb[in] = None THEN r.rdb ELSE noted(r.rdb))

Apply(c, r, src, bad) ==
    CASE c.type = "Meta" -> applyMeta(c, r)
      [] c.type = "Data" -> applyData(c, r, src)
      [] c.type = "Add"  -> applyAdd(c, r, src, bad)
      [] c.type = "Del"  -> applyDel(c, r)
      [] c.type = "DirFile" -> applyAdd(c, applyDel(c, r), src, bad)

\* merge takes the changes by path, those of one stream if the other ended.
\* Of two for the same path resolve takes the latest; those below a path that
\* was added or removed are told of, and taken too.
Empty == todo = <<<<>>, <<>>>>
Heads ==
    LET pull == todo[1]
        push == todo[2]
    IN  IF push = <<>> THEN {1}
        ELSE IF pull = <<>> THEN {2}
        ELSE (IF PathLess(push[1].path, pull[1].path) THEN {} ELSE {1}) \cup
             (IF PathLess(pull[1].path, push[1].path) THEN {} ELSE {2})
resolve ==
    IF Heads = {1} \/ (Heads = {1, 2} /\ todo[2][1].time < todo[1][1].time)
    THEN todo[1][1] ELSE todo[2][1]
merge == [i \in 1..2 |-> IF i \in Heads THEN Tail(todo[i]) ELSE todo[i]]

\* The changes that a command makes are those found in these replicas.
FromRemote(c) == IF c \in {"push", "blindpush", "pushall"} THEN {"local"} ELSE {"remote"}
From(c) ==
    CASE c = "sync" -> Sides
      [] c \in {"pull", "blindpull", "pullall"} -> {"remote"}
      [] c \in {"push", "blindpush", "pushall"} -> {"local"}

\* ApplyAll takes the next change; its outcome is r.
Target(c) == Other(c.at)
Before(c) == Result(fs[Target(c)], db[Target(c)], db[c.at])
\* Data of the target that a change of attributes takes for that of the source.
Over(c, r) == {p \in Paths :
    IF r.fs[p] = fs[Target(c)][p] THEN p \in over
    ELSE c.type = "Meta" /\ TypeAt(r.fs, p) = "-" /\ r.fs[p].v # DataOf(fs[c.at], p)}
Made(c, r) ==
    /\ over' = Over(c, r)
    /\ fs' = [fs EXCEPT ![Target(c)] = r.fs]
    /\ db' = [s \in Sides |-> IF s = c.at THEN r.rdb ELSE r.ldb]
    /\ todo' = merge
    /\ cmd' = IF merge = <<<<>>, <<>>>> THEN "save" ELSE cmd
    /\ UNCHANGED <<saved, clock>>
Applying == ~Empty /\ resolve.at \in From(cmd)
ApplyAll ==
    /\ ~Empty
    /\ \E c \in {resolve} :
        \E r \in {IF c.at \in From(cmd) THEN Apply(c, Before(c), fs[c.at], {}) ELSE Before(c)} :
            Made(c, r)
    /\ UNCHANGED used

\* Save, of one DB after the other, each renamed when complete.
Save ==
    \/ /\ cmd = "save" /\ cmd' = "save2"
       /\ saved' = [saved EXCEPT !["local"] = db["local"]]
       /\ UNCHANGED <<fs, db, todo, clock, used, over>>
    \/ /\ cmd = "save2" /\ cmd' = "idle"
       /\ saved' = db
       /\ UNCHANGED <<fs, db, todo, clock, used, over>>

-----------------------------------------------------------------------------
(* What may fail.                                                          *)

Fault(f) == f \in Faults /\ used["faults"] < MaxFaults /\ Use("faults")

\* The server can't be reached, or it is but its reply is lost; or the data of
\* a file can't be read.  Only what Add puts is then noted in the DBs.
Failing(f) ==
    CASE f = "none" -> {"Meta", "Data", "Add", "Del", "DirFile"}
      [] f = "lost" -> {"Meta", "Data", "Del"}
      [] f \in {"get", "getall"} -> {"Data"}
      [] f = "add"  -> {"Add", "DirFile"}
Outcome(f, c, bad) ==
    CASE f = "none" -> Before(c)
      [] f = "lost" -> [Before(c) EXCEPT !.fs = Apply(c, Before(c), fs[c.at], {}).fs]
      [] f \in {"get", "getall"} -> PutData(c, Before(c), 0)
      [] f = "add"  -> Apply(c, Before(c), fs[c.at], bad)
ApplyFails(f) ==
    /\ Applying /\ Fault(f)
    /\ resolve.type \in Failing(f)
    /\ f = "get" => cmd \notin {"pullall", "pushall"}
    /\ \E p \in Paths : Made(resolve, Outcome(f, resolve, {p}))

\* The command dies, and its DBs with it.
Crash ==
    /\ cmd # "idle" /\ Fault(IF cmd = "save2" THEN "torn" ELSE "crash")
    /\ cmd' = "idle" /\ todo' = <<<<>>, <<>>>> /\ db' = saved
    /\ UNCHANGED <<fs, saved, clock, over>>

-----------------------------------------------------------------------------

\* New: both replicas were scanned, and are the same.
Init ==
    /\ fs = [s \in Sides |-> [p \in All |->
                IF p = <<>> THEN [type |-> "d", v |-> 0, mt |-> 0, mode |-> 0]
                ELSE IF p \in DOMAIN Initial
                THEN [type |-> Initial[p], v |-> IF Initial[p] = "-" THEN 1 ELSE 0,
                      mt |-> 0, mode |-> 0]
                ELSE None]]
    /\ saved = [s \in Sides |-> Scan(s)]
    /\ db = saved
    /\ cmd = "idle" /\ todo = <<<<>>, <<>>>>
    /\ clock = 0
    /\ used = [x \in {"edits", "cmds", "faults"} |-> 0]
    /\ over = {}

Next ==
    \/ \E s \in Editors, p \in Paths, kind \in Edits : UserEdits(s, p, kind)
    \/ Sync \/ \E c \in Commands : OtherCommand(c)
    \/ ApplyAll \/ Save
    \/ Crash \/ \E f \in Faults \ {"crash", "torn"} : ApplyFails(f)

\* A command that runs goes on, and zxsync is run again and again.
Spec == Init /\ [][Next]_vars /\ WF_vars(Sync \/ ApplyAll \/ Save)

-----------------------------------------------------------------------------
(* Properties.                                                             *)

\* Both replicas have the same file at p, but for the mtime, or a DB says that
\* it could not be put.
Ignored(p) == \E s \in Sides, q \in All :
    IsPrefix(q, p) /\ saved[s][q] # None /\ saved[s][q].err
Same(p) ==
    LET l == fs["local"][p]
        r == fs["remote"][p]
    IN  IF l = None \/ r = None THEN l = r
        ELSE l.type = r.type /\ l.v = r.v /\ l.mode = r.mode

\* There is nothing to sync.
Quiet == cmd = "idle" /\ \A s \in Sides : changed(saved[s], Scan(s)) = {}

\* When there is nothing to sync the replicas are the same: whatever was edited
\* while commands ran, crashed or failed, the DBs never hide a difference, but
\* for data that was taken for other data when attributes were set.
QuietIsSame == Quiet => \A p \in Paths : Same(p) \/ Ignored(p) \/ p \in over

\* The same of all files: there are no "changes that must be made to sync".
QuietIsAllSame == Quiet => \A p \in Paths : Same(p) \/ Ignored(p)

\* What was changed in a replica is data or attributes of what the other one no
\* longer has, and that is the latest change: it can't be made.
CantApply(p) == \E s \in Sides :
    /\ TypeAt(fs[s], p) # TypeAt(fs[Other(s)], p)
    /\ ChgType(saved[Other(s)][p], Scan(Other(s))[p]) \in
            {"Meta"} \cup IF IsDir(fs[s], p) THEN {"Data"} ELSE {}

\* If edits and failures end, sync after sync makes the replicas the same, but
\* for conflicts that are won by a change that can't be made.
EventuallySame ==
    <>[](\A p \in Paths : Same(p) \/ Ignored(p) \/ p \in over \/ CantApply(p))

\* The same, with those conflicts: "If there's a conflict, the newest change wins."
ConflictsEnd == <>[](\A p \in Paths : Same(p) \/ Ignored(p) \/ p \in over)
=============================================================================
