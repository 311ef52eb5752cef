-------------------------- MODULE WorkingDirectory --------------------------
(***************************************************************************)
(* Where a git source keeps its objects between fetches.  A call of the    *)
(* source (a fetch that wants documents, or the idle check of its watch)   *)
(* takes the fetch mutex, compacts the directory when it has too many      *)
(* packs, opens or creates the object database, asks the host where the    *)
(* ref points, receives a pack if the commit is new, and reads every       *)
(* document out of that commit's tree.                                     *)
(*                                                                         *)
(* The directory is what a process leaves behind: compaction removes its   *)
(* entries one at a time, and creation is a database first and a marker    *)
(* after.  Sources of one program are kept apart by a claim on the         *)
(* directory, threads of one source by the mutex; programs are not kept    *)
(* apart, so there is one program here, which may crash.                   *)
(***************************************************************************)
EXTENDS Naturals, FiniteSets

CONSTANTS
    Commits,      \* what the ref may point at
    Theirs,       \* what a repository the caller made holds, not a commit of the ref
    Sources,      \* the sources of the program that name the directory
    Threads,      \* the threads of a source
    NoThread,     \* nobody holds a mutex
    CompactAfter, \* Builder::compact_after: the packs a directory may hold; 0 for ever
    MaxCrashes    \* bound: how often the program dies

ASSUME DirectoryBounds ==
    /\ Theirs \notin Commits
    /\ NoThread \notin Threads
    /\ CompactAfter \in Nat /\ MaxCrashes \in Nat

Callers == Sources \X Threads
None == Theirs

VARIABLES
    head,         \* the commit the ref points at, on the host
    entries,      \* what is in the directory: the marker, the skeleton, the objects
    packs,        \* the commits the object database holds, one pack each
    theirs,       \* whether the directory was a repository before it was named
    live,         \* the sources that exist: a claim is held by each
    fetching,     \* per source, who holds its fetch mutex
    at,           \* per caller, where its attempt is
    wants,        \* per caller, whether it wants documents
    retried,      \* per caller, whether a refused credential was replaced
    commit,       \* per caller, the commit advertised to it
    crashes       \* how often the program has died

directory == <<entries, packs>>
attempt == <<at, wants, retried, commit>>
vars == <<head, directory, theirs, live, fetching, attempt, crashes>>

Openable == {"head", "objects"} \subseteq entries
Ours == "marker" \in entries

Move(c, place) == at' = [at EXCEPT ![c] = place]

Init ==
    /\ head \in Commits
    /\ theirs \in BOOLEAN
    /\ entries = IF theirs THEN {"head", "objects"} ELSE {}
    /\ packs = IF theirs THEN {Theirs} ELSE {}
    /\ live = {}
    /\ fetching = [s \in Sources |-> NoThread]
    /\ at = [c \in Callers |-> "idle"]
    /\ wants = [c \in Callers |-> FALSE]
    /\ retried = [c \in Callers |-> FALSE]
    /\ commit = [c \in Callers |-> None]
    /\ crashes = 0

-----------------------------------------------------------------------------
(* The host, and the program around the calls.                             *)

Push ==
    /\ head' \in Commits \ {head}
    /\ UNCHANGED <<directory, theirs, live, fetching, attempt, crashes>>

\* Builder::build claims the directory; a second source that names it, under
\* any spelling, is refused.
Build(s) ==
    /\ live = {}
    /\ live' = {s}
    /\ UNCHANGED <<head, directory, theirs, fetching, attempt, crashes>>

\* Dropping a source ends its claim.  It has no call in progress: they borrow it.
DropSource(s) ==
    /\ s \in live
    /\ \A t \in Threads : at[<<s, t>>] = "idle"
    /\ live' = live \ {s}
    /\ UNCHANGED <<head, directory, theirs, fetching, attempt, crashes>>

Crash ==
    /\ crashes < MaxCrashes
    /\ crashes' = crashes + 1
    /\ live' = {}
    /\ fetching' = [s \in Sources |-> NoThread]
    /\ at' = [c \in Callers |-> "idle"]
    /\ wants' = [c \in Callers |-> FALSE]
    /\ retried' = [c \in Callers |-> FALSE]
    /\ commit' = [c \in Callers |-> None]
    /\ UNCHANGED <<head, directory, theirs>>

-----------------------------------------------------------------------------
(* One attempt.  `once' holds the mutex from Lock to Leave.                *)

\* A fetch, or a tick of the watch.
Call(c, document) ==
    /\ c[1] \in live /\ at[c] = "idle"
    /\ Move(c, "locking")
    /\ wants' = [wants EXCEPT ![c] = document]
    /\ UNCHANGED <<head, directory, theirs, live, fetching, retried, commit, crashes>>

\* The credential is obtained before the mutex is asked for.
CredentialFails(c) ==
    /\ at[c] = "locking"
    /\ Move(c, "idle")
    /\ wants' = [wants EXCEPT ![c] = FALSE]
    /\ retried' = [retried EXCEPT ![c] = FALSE]
    /\ UNCHANGED <<head, directory, theirs, live, fetching, commit, crashes>>

\* Mutant: nobody waits for the mutex.
LockAnyway(c) ==
    /\ at[c] = "locking"
    /\ fetching' = [fetching EXCEPT ![c[1]] = c[2]]
    /\ Move(c, "compacting")
    /\ UNCHANGED <<head, directory, theirs, live, wants, retried, commit, crashes>>

Lock(c) ==
    /\ at[c] = "locking"
    /\ fetching[c[1]] = NoThread
    /\ fetching' = [fetching EXCEPT ![c[1]] = c[2]]
    /\ Move(c, "compacting")
    /\ UNCHANGED <<head, directory, theirs, live, wants, retried, commit, crashes>>

\* Mutant: a directory without the marker is compacted too.
CompactsAny == CompactAfter # 0 /\ Cardinality(packs) > CompactAfter

\* Whether `compact' empties the directory: only one this crate made, over the bound.
Compacts ==
    CompactAfter # 0 /\ Ours /\ Cardinality(packs) > CompactAfter

Compact(c) ==
    /\ at[c] = "compacting"
    /\ Move(c, IF Compacts THEN "emptying" ELSE "opening")
    /\ UNCHANGED <<head, directory, theirs, live, fetching, wants, retried, commit, crashes>>

\* `empty' takes the entries in the order the file system lists them.
RemoveEntry(c) ==
    /\ at[c] = "emptying"
    /\ \E e \in entries :
        /\ entries' = entries \ {e}
        /\ packs' = IF e = "objects" THEN {} ELSE packs
    /\ UNCHANGED <<head, theirs, live, fetching, attempt, crashes>>

Emptied(c) ==
    /\ at[c] = "emptying" /\ entries = {}
    /\ Move(c, "opening")
    /\ UNCHANGED <<head, directory, theirs, live, fetching, wants, retried, commit, crashes>>

Open(c) ==
    /\ at[c] = "opening" /\ Openable
    /\ Move(c, "asking")
    /\ UNCHANGED <<head, directory, theirs, live, fetching, wants, retried, commit, crashes>>

\* gix::init_bare, which may refuse what is neither a database nor empty.
InitBare(c) ==
    /\ at[c] = "opening" /\ ~Openable
    /\ entries' = entries \cup {"head", "objects"}
    /\ Move(c, "marking")
    /\ UNCHANGED <<head, packs, theirs, live, fetching, wants, retried, commit, crashes>>

Mark(c) ==
    /\ at[c] = "marking"
    /\ entries' = entries \cup {"marker"}
    /\ Move(c, "asking")
    /\ UNCHANGED <<head, packs, theirs, live, fetching, wants, retried, commit, crashes>>

\* The ref advertisement.  A commit that is here is not transferred, and a check
\* wants no objects.
Advertised(c) ==
    /\ at[c] = "asking"
    /\ commit' = [commit EXCEPT ![c] = head]
    /\ Move(c, IF ~wants[c] THEN "leaving"
               ELSE IF head \in packs THEN "reading" ELSE "receiving")
    /\ UNCHANGED <<head, directory, theirs, live, fetching, wants, retried, crashes>>

Receive(c) ==
    /\ at[c] = "receiving"
    /\ packs' = packs \cup {commit[c]}
    /\ Move(c, "reading")
    /\ UNCHANGED <<head, entries, theirs, live, fetching, wants, retried, commit, crashes>>

\* Every document comes out of the commit's tree, or the read fails whole.
ReadDocuments(c) ==
    /\ at[c] = "reading"
    /\ Move(c, "leaving")
    /\ UNCHANGED <<head, directory, theirs, live, fetching, wants, retried, commit, crashes>>

\* The end of `once', after an answer or after any failure on the way: an entry
\* that cannot be removed, a database that cannot be made, opened or marked, a
\* host that is away, a deadline, a document that cannot be read.
Leave(c) ==
    /\ at[c] \in {"emptying", "opening", "marking", "asking", "receiving", "reading", "leaving"}
    /\ fetching' = [fetching EXCEPT ![c[1]] = NoThread]
    /\ Move(c, "idle")
    /\ retried' = [retried EXCEPT ![c] = FALSE]
    /\ wants' = [wants EXCEPT ![c] = FALSE]
    /\ commit' = [commit EXCEPT ![c] = None]
    /\ UNCHANGED <<head, directory, theirs, live, crashes>>

\* A refused credential that can be replaced is, once, and everything is done
\* again, from the mutex on.
Refused(c) ==
    /\ at[c] \in {"asking", "receiving"} /\ ~retried[c]
    /\ fetching' = [fetching EXCEPT ![c[1]] = NoThread]
    /\ Move(c, "locking")
    /\ retried' = [retried EXCEPT ![c] = TRUE]
    /\ commit' = [commit EXCEPT ![c] = None]
    /\ UNCHANGED <<head, directory, theirs, live, wants, crashes>>

Once(c) ==
    \/ Lock(c) \/ Compact(c) \/ RemoveEntry(c) \/ Emptied(c) \/ Open(c) \/ InitBare(c)
    \/ Mark(c) \/ Advertised(c) \/ Receive(c) \/ ReadDocuments(c) \/ Leave(c)

Next ==
    \/ Push \/ Crash
    \/ \E s \in Sources : Build(s) \/ DropSource(s)
    \/ \E c \in Callers :
        \/ \E document \in BOOLEAN : Call(c, document)
        \/ CredentialFails(c) \/ Once(c) \/ Refused(c)

Spec == Init /\ [][Next]_vars

-----------------------------------------------------------------------------
(* Properties.                                                             *)

Places == {"idle", "locking", "compacting", "emptying", "opening", "marking", "asking",
           "receiving", "reading", "leaving"}

\* Every variable holds a value of its type.
TypeOK ==
    /\ head \in Commits
    /\ entries \subseteq {"marker", "head", "objects"}
    /\ packs \subseteq Commits \cup {Theirs}
    /\ theirs \in BOOLEAN
    /\ live \subseteq Sources
    /\ fetching \in [Sources -> Threads \cup {NoThread}]
    /\ at \in [Callers -> Places]
    /\ wants \in [Callers -> BOOLEAN] /\ retried \in [Callers -> BOOLEAN]
    /\ commit \in [Callers -> Commits \cup {None}]
    /\ crashes \in 0 .. MaxCrashes

\* A call that has opened the database finds there what it goes on to need, the
\* commit it reads included: no other thread, and no other source of the program,
\* empties the directory under it.
\* (The comments `what stops two threads writing one object database' and `a
\* compact that can empty it while the other is reading'.)
NothingNeededIsRemoved ==
    \A c \in Callers :
        /\ at[c] \in {"asking", "receiving", "reading"} => Openable
        /\ at[c] = "reading" => commit[c] \in packs

\* A repository the caller already had keeps what was in it, whatever fails on
\* the way and however often the program is restarted.
\* (`a directory without it is never touched', of the marker.)
TheirsIsKept == theirs => Theirs \in packs /\ Openable

\* The calls that hold the mutex of their source.
Inside == Places \ {"idle", "locking"}

\* One source has the directory, one thread of it is inside at a time, and neither
\* compaction nor the marker of a new database ever meets the caller's own repository.
IndInv ==
    /\ TypeOK
    /\ \A s, t \in live : s = t
    /\ \A c \in Callers :
        /\ at[c] # "idle" => c[1] \in live
        /\ at[c] \in Inside => fetching[c[1]] = c[2]
        /\ at[c] = "marking" => Openable
        /\ theirs => at[c] \notin {"emptying", "marking"}
    /\ theirs => ~Ours
    /\ NothingNeededIsRemoved
    /\ TheirsIsKept

\* A directory this crate made holds at most one pack more than it may, because
\* the call that finds it over the bound empties it.
\* (`the number of transfers a directory may accumulate', and the test that a
\* long-lived working directory does not grow without bound.)
GrowthIsBounded ==
    ~theirs /\ CompactAfter # 0 => Cardinality(packs) <= CompactAfter + 1
=============================================================================
