------------------------------ MODULE PassiveCapture ------------------------------
(***************************************************************************)
(* capture_confined_regular_file and inspect_confined_regular_file of      *)
(* passive_files.py, one system call at a time, over a path of two         *)
(* components under the resolved root, while other processes relink and    *)
(* rewrite what the path names.  The two differ in their reading loops     *)
(* only: capture keeps the blocks and counts down the remaining bytes,     *)
(* inspect hashes them and counts up.                                      *)
(***************************************************************************)
EXTENDS Naturals, Sequences, FiniteSets

CONSTANTS
    Contents,      \* what a file may hold, as sequences of bytes
    MaxBytes,      \* max_bytes of the call
    Readers,       \* which of the two functions runs
    Inodes, Dirs,  \* identities files and directories can have
    BlockBytes,    \* the 64 KiB of one os.read
    MaxChanges,    \* bound: changes other processes make in one behaviour
    MaxReadErrors  \* bound: os.read calls that fail in one behaviour

Bytes == UNION {{c[i] : i \in DOMAIN c} : c \in Contents}

ASSUME PassiveAssumption ==
    /\ Contents \subseteq Seq(Bytes)
    /\ MaxBytes \in Nat /\ BlockBytes \in Nat \ {0}
    /\ Readers \subseteq {"capture", "inspect"}
    /\ MaxChanges \in Nat /\ MaxReadErrors \in Nat

\* What a name may be bound to besides a directory or a regular file.
Missing == "missing"
Link == "link"
Plain == "plain"     \* a component that is not a directory
Folder == "folder"   \* a leaf that is not a regular file; named pipes, whose open
                     \* waits for a writer, are left out

ASSUME NamesAssumption == {Missing, Link, Plain, Folder} \cap (Inodes \cup Dirs) = {}

RootNames == Dirs \cup {Link, Missing}
ParentNames == Dirs \cup {Link, Plain, Missing}
EntryNames == Inodes \cup {Link, Folder, Missing}

Codes == {"none", "symlink", "not_regular", "outside", "too_large",
          "unavailable", "changed"}

VARIABLES
    tree,        \* what the root, its component and the leaf are bound to
    data, mtime, ctime, changes,
    reader,
    pc,
    rootBefore, parentBefore,   \* _path_identity of the first look
    before,      \* lstat of the path before it is opened
    opened,      \* fstat right after os.open
    consumed, readErrors,
    outcome, captured, code,
    seen         \* history: the contents the path has named so far

fsVars == <<tree, data, mtime, ctime, changes, seen>>
idVars == <<rootBefore, parentBefore, before, opened>>
readVars == <<consumed, readErrors>>
outVars == <<outcome, captured, code>>
passiveVars == <<fsVars, reader, pc, idVars, readVars, outVars>>

\* lstat of the path: links above the leaf are followed.
Named(t) ==
    IF t.root = Missing \/ t.parent \in {Missing, Plain} THEN Missing ELSE t.entry

Shown(t, d) == IF Named(t) \in Inodes THEN {d[Named(t)]} ELSE {}

OpenIdentity(f) == [file |-> f, size |-> Len(data[f]), mtime |-> mtime[f]]
PathIdentity(f) == [open |-> OpenIdentity(f), ctime |-> ctime[f]]

NoOpen == [file |-> Missing, size |-> 0, mtime |-> 0]
NoPath == [open |-> NoOpen, ctime |-> 0]

Init ==
    /\ tree \in [root : RootNames, parent : ParentNames, entry : EntryNames]
    /\ data \in [Inodes -> Contents]
    /\ mtime = [f \in Inodes |-> 0] /\ ctime = [f \in Inodes |-> 0]
    /\ changes = 0
    /\ seen = Shown(tree, data)
    /\ reader \in Readers
    /\ pc = "root"
    /\ rootBefore = Missing /\ parentBefore = Missing
    /\ before = NoPath /\ opened = NoOpen
    /\ consumed = <<>> /\ readErrors = 0
    /\ outcome = "pending" /\ captured = <<>> /\ code = "none"

-----------------------------------------------------------------------------------
(* Other processes.  A name may be rebound to anything, and a file may be    *)
(* rewritten with its modification time put back; its change time moves.     *)

Interfere ==
    /\ pc # "done" /\ changes < MaxChanges
    /\ changes' = changes + 1
    /\ seen' = seen \cup Shown(tree', data')
    /\ UNCHANGED <<reader, pc, idVars, readVars, outVars>>

Rebind ==
    /\ \/ \E n \in RootNames : tree' = [tree EXCEPT !.root = n]
       \/ \E n \in ParentNames : tree' = [tree EXCEPT !.parent = n]
       \/ \E n \in EntryNames : tree' = [tree EXCEPT !.entry = n]
    /\ UNCHANGED <<data, mtime, ctime>>
    /\ Interfere

Rewrite(f) ==
    /\ \E c \in Contents : data' = [data EXCEPT ![f] = c]
    /\ mtime' \in {mtime, [mtime EXCEPT ![f] = @ + 1]}
    /\ ctime' = [ctime EXCEPT ![f] = @ + 1]
    /\ UNCHANGED tree
    /\ Interfere

-----------------------------------------------------------------------------------
\* PassiveFileError with its code; the descriptor, if any, is closed.
Refuse(why) ==
    /\ pc' = "done"
    /\ outcome' = "refused" /\ code' = why
    /\ rootBefore' = Missing /\ parentBefore' = Missing
    /\ before' = NoPath /\ opened' = NoOpen
    /\ consumed' = <<>>
    /\ UNCHANGED <<fsVars, reader, captured>>

Proceed(next) ==
    /\ pc' = next
    /\ UNCHANGED <<fsVars, reader, readVars, outVars>>

\* The resolved root is looked at again: a directory, not a link.
LookRoot ==
    /\ pc = "root"
    /\ CASE tree.root = Missing -> Refuse("unavailable") /\ UNCHANGED readErrors
         [] tree.root = Link -> Refuse("symlink") /\ UNCHANGED readErrors
         [] OTHER -> /\ rootBefore' = tree.root
                     /\ Proceed("parent")
                     /\ UNCHANGED <<parentBefore, before, opened>>

LookParent ==
    /\ pc = "parent"
    /\ CASE Missing \in {tree.root, tree.parent} ->
                Refuse("unavailable") /\ UNCHANGED readErrors
         [] tree.root # Missing /\ tree.parent = Link ->
                Refuse("symlink") /\ UNCHANGED readErrors
         [] tree.root # Missing /\ tree.parent = Plain ->
                Refuse("not_regular") /\ UNCHANGED readErrors
         [] OTHER -> /\ parentBefore' = tree.parent
                     /\ Proceed("leaf")
                     /\ UNCHANGED <<rootBefore, before, opened>>

LookLeaf ==
    /\ pc = "leaf"
    /\ CASE Named(tree) = Missing -> Refuse("unavailable") /\ UNCHANGED readErrors
         [] Named(tree) = Link -> Refuse("symlink") /\ UNCHANGED readErrors
         [] OTHER -> Proceed("resolve") /\ UNCHANGED idVars

\* resolve(strict=True): a link on the way ends elsewhere below the root, or
\* outside it, where relative_to raises.
Resolve ==
    /\ pc = "resolve"
    /\ IF Named(tree) = Missing
       THEN Refuse("unavailable") /\ UNCHANGED readErrors
       ELSE IF Link \in {tree.root, tree.parent, tree.entry}
       THEN \E why \in {"outside", "unavailable"} :
                Refuse(why) /\ UNCHANGED readErrors
       ELSE Proceed("stat") /\ UNCHANGED idVars

\* A plausible slip: the bound itself is refused.
TooLargeAtBound(f) == Len(data[f]) >= MaxBytes

TooLarge(f) == Len(data[f]) > MaxBytes

\* before: a regular file within the bound.
StatPath ==
    /\ pc = "stat"
    /\ CASE Named(tree) = Missing -> Refuse("unavailable") /\ UNCHANGED readErrors
         [] Named(tree) \in {Link, Folder} ->
                Refuse("not_regular") /\ UNCHANGED readErrors
         [] Named(tree) \in Inodes /\ TooLarge(Named(tree)) ->
                Refuse("too_large") /\ UNCHANGED readErrors
         [] OTHER -> /\ before' = PathIdentity(Named(tree))
                     /\ Proceed("open")
                     /\ UNCHANGED <<rootBefore, parentBefore, opened>>

\* os.open without following a link at the leaf, then os.fstat.  Only the
\* descriptor counts from here on, so the two calls are one step.
Open ==
    /\ pc = "open"
    /\ CASE Named(tree) \in {Missing, Link} ->
                Refuse("unavailable") /\ UNCHANGED readErrors
         [] Named(tree) = Folder -> Refuse("not_regular") /\ UNCHANGED readErrors
         [] Named(tree) \in Inodes /\ OpenIdentity(Named(tree)) # before.open ->
                Refuse("changed") /\ UNCHANGED readErrors
         [] OTHER -> /\ opened' = OpenIdentity(Named(tree))
                     /\ Proceed("read")
                     /\ UNCHANGED <<rootBefore, parentBefore, before>>

-----------------------------------------------------------------------------------
Least(a, b) == IF a < b THEN a ELSE b
File == data[opened.file]
Unread == Len(File) - Len(consumed)

\* capture: remaining starts at max_bytes + 1.
Remaining == MaxBytes + 1 - Len(consumed)
\* inspect: while size <= max_bytes.
MoreToHash == Len(consumed) <= MaxBytes

Wanted ==
    IF reader = "capture" THEN Least(BlockBytes, Remaining)
    ELSE IF MoreToHash THEN Least(BlockBytes, MaxBytes + 1 - Len(consumed)) ELSE 0

\* os.read may return fewer bytes than asked for.
ReadBlock ==
    /\ pc = "read" /\ Wanted > 0 /\ Unread > 0
    /\ \E n \in 1..Least(Wanted, Unread) :
         consumed' = consumed \o SubSeq(File, Len(consumed) + 1, Len(consumed) + n)
    /\ UNCHANGED <<fsVars, reader, pc, idVars, readErrors, outVars>>

ReadFailed ==
    /\ pc = "read" /\ Wanted > 0 /\ readErrors < MaxReadErrors
    /\ readErrors' = readErrors + 1
    /\ Refuse("unavailable")

\* The loop is over: an empty block, or one byte more than the bound.
EndOfRead ==
    /\ pc = "read" /\ (Wanted = 0 \/ Unread <= 0)
    /\ IF Len(consumed) > MaxBytes
       THEN Refuse("too_large") /\ UNCHANGED readErrors
       ELSE Proceed("fstat") /\ UNCHANGED idVars

\* opened_after, and the descriptor is closed.
FstatAgain ==
    /\ pc = "fstat"
    /\ IF OpenIdentity(opened.file) # opened
       THEN Refuse("changed") /\ UNCHANGED readErrors
       ELSE Proceed("recheck_root") /\ UNCHANGED idVars

RecheckRoot ==
    /\ pc = "recheck_root"
    /\ IF tree.root # rootBefore
       THEN Refuse("changed") /\ UNCHANGED readErrors
       ELSE Proceed("recheck_parent") /\ UNCHANGED idVars

RecheckParent ==
    /\ pc = "recheck_parent"
    /\ IF tree.root = Missing \/ tree.parent # parentBefore
       THEN Refuse("changed") /\ UNCHANGED readErrors
       ELSE Proceed("recheck_path") /\ UNCHANGED idVars

\* A plausible slip: the parts both identities share are enough.
SameFilePortable ==
    /\ Named(tree) \in Inodes
    /\ OpenIdentity(Named(tree)) = before.open
    /\ Len(consumed) = opened.size

\* The last lstat, with the change time, and the number of bytes read.
SameFile ==
    /\ Named(tree) \in Inodes
    /\ PathIdentity(Named(tree)) = before
    /\ OpenIdentity(Named(tree)) = opened
    /\ Len(consumed) = opened.size

RecheckPath ==
    /\ pc = "recheck_path"
    /\ IF SameFile
       THEN /\ pc' = "done"
            /\ outcome' = "captured" /\ captured' = consumed
            /\ rootBefore' = Missing /\ parentBefore' = Missing
            /\ before' = NoPath /\ opened' = NoOpen /\ consumed' = <<>>
            /\ UNCHANGED <<fsVars, reader, readErrors, code>>
       ELSE Refuse("changed") /\ UNCHANGED readErrors

-----------------------------------------------------------------------------------
\* The steps of capture in order; inspect repeats them with its own loop.
Program ==
    \/ LookRoot \/ LookParent \/ LookLeaf \/ Resolve \/ StatPath \/ Open
    \/ ReadBlock \/ EndOfRead
    \/ FstatAgain \/ RecheckRoot \/ RecheckParent \/ RecheckPath

\* The call has returned or raised.
Returned == pc = "done" /\ UNCHANGED passiveVars

Next == Program \/ ReadFailed \/ Rebind \/ (\E f \in Inodes : Rewrite(f)) \/ Returned

PassiveSpec == Init /\ [][Next]_passiveVars

\* A running process is scheduled; no call has to fail, and nothing is assumed of
\* the other processes.
FairPassiveSpec == PassiveSpec /\ WF_passiveVars(Program)

-----------------------------------------------------------------------------------
\* With nobody else at work and no failing read the outcome is a function of the
\* path: which code for which obstacle, and a capture exactly for a regular file of
\* at most max_bytes, of exactly max_bytes and of no byte at all too.  The two
\* reading loops, written differently, give the same answer.
ExpectedCode ==
    IF tree.root \notin Dirs
    THEN IF tree.root = Link THEN "symlink" ELSE "unavailable"
    ELSE IF tree.parent \notin Dirs
    THEN CASE tree.parent = Link -> "symlink"
           [] tree.parent = Plain -> "not_regular"
           [] OTHER -> "unavailable"
    ELSE CASE tree.entry = Missing -> "unavailable"
           [] tree.entry = Link -> "symlink"
           [] tree.entry = Folder -> "not_regular"
           [] OTHER -> IF Len(data[tree.entry]) > MaxBytes THEN "too_large" ELSE "none"

UndisturbedOutcome ==
    pc = "done" /\ changes = 0 /\ readErrors = 0 =>
        /\ code = ExpectedCode
        /\ code = "none" => captured = data[tree.entry]

\* Seen from outside, a capture is one look at a content the path named during the
\* call: never the beginning of one version and the end of another, although a
\* writer may put size and modification time back and no hash is known; and the call
\* is answered even when the file keeps growing.
Look == INSTANCE PassiveLook WITH shown <- Shown(tree, data)
ImplementsLook == Look!Spec
====
