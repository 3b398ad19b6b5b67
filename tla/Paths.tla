------------------------------- MODULE Paths -------------------------------
(***************************************************************************)
(* The names of files, kernel/src/vfs.c: vfs_get_absolute_path, a loop     *)
(* over the characters of a path with a pointer into the buffer it fills,  *)
(* vfs_translate_mnt, which finds the file system an absolute path lies    *)
(* in, and vfs_mount, vfs_cd and general_execute, which change what the    *)
(* two depend on.                                                          *)
(*                                                                         *)
(* A path is the sequence of its characters without the NUL at its end.    *)
(***************************************************************************)
EXTENDS Integers, Sequences, SequencesExt

CONSTANTS
    Letters,        \* the characters names are made of
    Inputs,         \* the paths programs use
    MountNames,     \* the mountpoints
    Dirs,           \* the directories there are, absolute paths
    Pwds,           \* bound: the working directories
    MaxMounts,      \* bound: mountpoints
    BufSize,        \* bound: characters of an absolute path
    Stale           \* whether the buffer holds what the last call left in it

NUL == ""
Characters == Letters \cup {"/"}

ASSUME PathsAssumption ==
    /\ MaxMounts \in Nat /\ BufSize \in Nat \ {0} /\ Stale \in BOOLEAN
    /\ "." \in Letters /\ {NUL, "/"} \cap Letters = {}
    /\ Inputs \cup MountNames \cup Pwds \subseteq Seq(Characters)
    /\ Dirs \subseteq Pwds /\ <<"/">> \in Dirs

Cells == 0 .. BufSize - 1

VARIABLES
    mountpoints,    \* in the order they were mounted in
    pwd,            \* the working directory of the task
    path, pos,      \* the path to resolve, and the place the loop is at
    buf, path_ptr,  \* the buffer, and the place in it
    at

pathVars == <<mountpoints, pwd, path, pos, buf, path_ptr, at>>

Clear == [k \in Cells |-> NUL]

PathsInit ==
    /\ mountpoints = <<>>
    /\ pwd = <<"/">>
    /\ path = <<>> /\ pos = 0
    /\ buf = Clear /\ path_ptr = 0
    /\ at = "boot"

\* vfs_mount, called while the kernel starts.  A file system's own mount has
\* succeeded; the one named is installed.
Mount(m) ==
    /\ at = "boot"
    /\ Len(mountpoints) < MaxMounts
    /\ mountpoints' = Append(mountpoints, m)
    /\ UNCHANGED <<pwd, path, pos, buf, path_ptr, at>>

Booted ==
    /\ at = "boot"
    /\ at' = "idle"
    /\ UNCHANGED <<mountpoints, pwd, path, pos, buf, path_ptr>>

\* general_execute: a program says what the working directory of the new task
\* is, and nobody looks at it.  The new task is the one that resolves paths
\* from here on.
ExecPwd(p) ==
    /\ at = "idle"
    /\ pwd' = p
    /\ UNCHANGED <<mountpoints, path, pos, buf, path_ptr, at>>

----------------------------------------------------------------------------
(* vfs_get_absolute_path *)

Char(k) == IF pos + k < Len(path) THEN path[pos + k + 1] ELSE NUL

\* kstrncmp(path, s, Len(s)) is 0.
Starts(s) == \A k \in 1 .. Len(s) : Char(k - 1) = s[k]

\* kstrcpy to the buffer.
Copied(s) ==
    [k \in Cells |-> IF k < Len(s) THEN s[k + 1] ELSE IF k = Len(s) THEN NUL ELSE buf[k]]

\* Up to first_run.
Call(p) ==
    /\ at = "idle"
    /\ path' = p
    /\ IF p # <<>> /\ p[1] = "/"
       THEN buf' = [buf EXCEPT ![0] = "/"] /\ path_ptr' = 1 /\ pos' = 1
       ELSE buf' = Copied(pwd) /\ path_ptr' = Len(pwd) /\ pos' = 0
    /\ at' = IF p = <<>> THEN "done" ELSE "first_run"
    /\ UNCHANGED <<mountpoints, pwd>>

DotEnds == Starts(<<".", NUL>>) \/ Starts(<<".", "/", NUL>>)
DotDotEnds == Starts(<<".", ".", NUL>>) \/ Starts(<<".", ".", "/", NUL>>)
DotDot == Starts(<<".", ".", "/">>) /\ ~DotDotEnds
Dot == Starts(<<".", "/">>) /\ ~DotEnds

\* "while (*path_ptr != '/') path_ptr--", which begins with the cell the next
\* character would go to.
Slashes == {k \in Cells : k <= path_ptr /\ buf[k] = "/"}
LastSlash == CHOOSE k \in Slashes : \A j \in Slashes : j <= k

Up == IF LastSlash = 0 THEN 1 ELSE LastSlash

AtFirstRun == at = "first_run" /\ UNCHANGED <<mountpoints, pwd, path>>

SkipSlash ==
    /\ AtFirstRun
    /\ Char(0) = "/"
    /\ at' = "loop"
    /\ UNCHANGED <<pos, buf, path_ptr>>

EndInDot ==
    /\ AtFirstRun
    /\ DotEnds
    /\ at' = "term"
    /\ UNCHANGED <<pos, buf, path_ptr>>

EndInDotDot ==
    /\ AtFirstRun
    /\ DotDotEnds /\ Slashes # {}
    /\ path_ptr' = Up
    /\ at' = "term"
    /\ UNCHANGED <<pos, buf>>

\* Mutant: the slash is left, where the next "while" would find it.
AscendKeepsSlash ==
    /\ AtFirstRun
    /\ DotDot /\ Slashes # {}
    /\ path_ptr' = Up
    /\ pos' = pos + 2
    /\ at' = "loop"
    /\ UNCHANGED buf

Ascend ==
    /\ AtFirstRun
    /\ DotDot /\ Slashes # {}
    /\ path_ptr' = Up
    /\ buf' = [buf EXCEPT ![Up] = NUL]
    /\ pos' = pos + 2
    /\ at' = "loop"

\* No slash: the "while" walks out of the buffer.  What follows is left out.
WalkOff ==
    /\ AtFirstRun
    /\ DotDotEnds \/ DotDot
    /\ Slashes = {}
    /\ at' = "outside"
    /\ UNCHANGED <<pos, buf, path_ptr>>

Stay ==
    /\ AtFirstRun
    /\ Dot
    /\ pos' = pos + 1
    /\ at' = "loop"
    /\ UNCHANGED <<buf, path_ptr>>

\* *(path_ptr - 1); in front of the buffer there may be anything.
Before == IF path_ptr > 0 THEN {buf[path_ptr - 1]} ELSE Characters \cup {NUL}

\* A name, or the end, follows: the separator is written if there is none.
Separate ==
    /\ AtFirstRun
    /\ ~(Char(0) = "/" \/ DotEnds \/ DotDotEnds \/ DotDot \/ Dot)
    /\ \E c \in Before :
          IF path_ptr - 1 # 0 /\ c # "/"
          THEN buf' = [buf EXCEPT ![path_ptr] = "/"] /\ path_ptr' = path_ptr + 1
          ELSE UNCHANGED <<buf, path_ptr>>
    /\ at' = "loop"
    /\ UNCHANGED pos

\* Mutant: the slash is not passed.
SlashStays ==
    /\ at = "loop" /\ Char(0) = "/"
    /\ at' = "first_run"
    /\ UNCHANGED <<mountpoints, pwd, path, pos, buf, path_ptr>>

\* The cases of the switch.
Slash ==
    /\ at = "loop" /\ Char(0) = "/"
    /\ pos' = pos + 1
    /\ at' = "first_run"
    /\ UNCHANGED <<mountpoints, pwd, path, buf, path_ptr>>

Letter ==
    /\ at = "loop" /\ Char(0) \notin {"/", NUL}
    /\ buf' = [buf EXCEPT ![path_ptr] = Char(0)]
    /\ pos' = pos + 1
    /\ path_ptr' = path_ptr + 1
    /\ UNCHANGED <<mountpoints, pwd, path, at>>

\* The NUL at the end of the result, which may go in front of the buffer.
EndsAt(end) ==
    /\ at = "term" \/ (at = "loop" /\ Char(0) = NUL)
    /\ IF end >= 0
       THEN path_ptr' = end /\ buf' = [buf EXCEPT ![end] = NUL] /\ at' = "done"
       ELSE at' = "outside" /\ UNCHANGED <<buf, path_ptr>>
    /\ UNCHANGED <<mountpoints, pwd, path, pos>>

\* Mutant: the slash of the root is taken for a trailing one.
TermStripsRoot == \E c \in Before : EndsAt(IF c = "/" THEN path_ptr - 1 ELSE path_ptr)

Term ==
    \E c \in Before :
        EndsAt(IF c = "/" /\ path_ptr - 1 # 0 THEN path_ptr - 1 ELSE path_ptr)

\* The string in the buffer.
Result ==
    LET end == CHOOSE k \in Cells : buf[k] = NUL /\ \A j \in 0 .. k - 1 : buf[j] # NUL
    IN  [k \in 1 .. end |-> buf[k - 1]]

----------------------------------------------------------------------------
(* The directories a path leads through *)

\* The names a path is made of, between its slashes.
Words(p) ==
    LET w[n \in 0 .. Len(p)] ==
          IF n = 0 THEN << <<>> >>
          ELSE IF p[n] = "/" THEN Append(w[n - 1], <<>>)
          ELSE [w[n - 1] EXCEPT ![Len(w[n - 1])] = Append(@, p[n])]
    IN  w[Len(p)]

\* The directories on the way from the root, after one name more.
Entered(dirs, w) ==
    IF w \in {<<>>, <<".">>} THEN dirs
    ELSE IF w = <<".", ".">> THEN IF dirs = <<>> THEN <<>> ELSE Front(dirs)
    ELSE Append(dirs, w)

\* The directories on the way from the root, after all the names.
Walked(words) ==
    LET d[n \in 0 .. Len(words)] == IF n = 0 THEN <<>> ELSE Entered(d[n - 1], words[n])
    IN  d[Len(words)]

Joined(words) ==
    LET j[n \in 0 .. Len(words)] == IF n = 0 THEN <<>> ELSE j[n - 1] \o <<"/">> \o words[n]
    IN  j[Len(words)]

\* The one normal form of the path to a directory.
PathOf(words) == IF words = <<>> THEN <<"/">> ELSE Joined(words)

Normal(p) == p = PathOf(Walked(Words(p)))

----------------------------------------------------------------------------
(* vfs_translate_mnt and vfs_cd *)

FAILURE == -2

\* Mutant: a mountpoint is taken for the prefix of a name.
MatchesName(p, i) ==
    LET m == mountpoints[i] IN Len(m) <= Len(p) /\ SubSeq(p, 1, Len(m)) = m

Matches(p, i) ==
    LET m == mountpoints[i]
    IN  /\ Len(m) <= Len(p) /\ SubSeq(p, 1, Len(m)) = m
        /\ \/ Len(p) = Len(m) \/ p[Len(m) + 1] = "/"
           \/ m = <<"/">>

\* The longest, and the first of several.
vfs_translate_mnt(p) ==
    LET C == {i \in DOMAIN mountpoints : Matches(p, i)}
        Better(i, j) == \/ Len(mountpoints[i]) > Len(mountpoints[j])
                        \/ Len(mountpoints[i]) = Len(mountpoints[j]) /\ i <= j
    IN  IF C = {} THEN FAILURE ELSE CHOOSE i \in C : \A j \in C : Better(i, j)

\* local_path.  ("*local_path++" moves a pointer nobody looks at: a slash in
\* front stays.)
LocalPath(p) == SubSeq(p, Len(mountpoints[vfs_translate_mnt(p)]) + 1, Len(p))

\* What vfs_kget_metadata looks for, which resolves the result once more: an
\* absolute one to its normal form (ResolvedRight), any other from the working
\* directory, where an empty one may have a slash put behind it.
Looked(r) ==
    IF r # <<>> /\ r[1] = "/" THEN {PathOf(Walked(Words(r)))}
    ELSE IF r # <<>> /\ pwd = <<>> THEN {r, <<"/">> \o r} ELSE {r}

\* The directories there are, and the root of a file system.
Found(r) ==
    LET i == vfs_translate_mnt(r) IN i # FAILURE /\ r \in Dirs \cup {mountpoints[i]}

\* The end of vfs_cd, which keeps the result of the first time.
VfsCd ==
    /\ at = "done"
    /\ \E r \in Looked(Result) :
          IF Found(r) THEN Result \in Pwds /\ pwd' = Result ELSE UNCHANGED pwd
    /\ at' = "idle"
    /\ path' = <<>> /\ pos' = 0 /\ path_ptr' = 0
    /\ buf' = IF Stale THEN buf ELSE Clear
    /\ UNCHANGED mountpoints

Loop ==
    \/ SkipSlash \/ EndInDot \/ EndInDotDot \/ Ascend \/ WalkOff \/ Stay \/ Separate
    \/ Slash \/ Letter \/ Term

PathsNext ==
    \/ Booted \/ \E m \in MountNames : Mount(m)
    \/ \E p \in Pwds : ExecPwd(p)
    \/ \E p \in Inputs : Call(p)
    \/ Loop
    \/ VfsCd

\* A call runs until it returns.
PathsSpec == PathsInit /\ [][PathsNext]_pathVars /\ WF_pathVars(Loop)

----------------------------------------------------------------------------

Absolute == path # <<>> /\ path[1] = "/"

\* Does the buffer begin with a slash?
Rooted == Absolute \/ (pwd # <<>> /\ pwd[1] = "/")

\* Every variable has its type.  From a working directory that begins with a
\* slash, or with an absolute path, the pointer stays within the buffer, past
\* the slash in its first cell; a walk back out of the buffer takes another
\* one, which general_execute lets a program give.
PathsTypeOK ==
    /\ at \in {"boot", "idle", "first_run", "loop", "term", "done", "outside"}
    /\ pwd \in Pwds
    /\ DOMAIN buf = Cells
    /\ pos \in 0 .. Len(path)
    /\ at \in {"first_run", "loop", "term", "done"} =>
          path_ptr \in Cells /\ (Rooted => path_ptr >= 1 /\ buf[0] = "/")
    /\ at = "outside" => ~Rooted

\* Directories and mountpoints are known by that form: mountpoints are written
\* out in the kernel.
ASSUME NormalAssumption == \A p \in Dirs \cup MountNames : Normal(p)

\* Does the path to resolve say which directory it leads to?
Meaningful == Absolute \/ Normal(pwd)

\* "converts a relative path into an absolute one" (vfs.c): whatever slashes,
\* dots and double dots a path has, the buffer ends up holding the directory
\* they lead to from the working directory, in its one normal form; if the
\* path is relative, as long as the working directory is in that form.
ResolvedRight ==
    at = "done" /\ Meaningful =>
        Result = PathOf(Walked(IF Absolute THEN Words(path) ELSE Words(pwd) \o Words(path)))

\* The same in the words of vfs.c:39 alone.
ResultAbsolute == at = "done" => Result # <<>> /\ Result[1] = "/"

\* A path lies in the file system mounted on the longest of the directories
\* it leads through, name by name, and what remains of it is the rest of the
\* names (vfs_translate_mnt).
MountRight ==
    at = "done" /\ Meaningful =>
        LET names == Walked(Words(Result))
            Through(i) == IsPrefix(Walked(Words(mountpoints[i])), names)
            Depth(i) == Len(Walked(Words(mountpoints[i])))
            m == vfs_translate_mnt(Result)
        IN  IF \A i \in DOMAIN mountpoints : ~Through(i) THEN m = FAILURE
            ELSE /\ Through(m)
                 /\ \A i \in DOMAIN mountpoints : Through(i) => Depth(i) <= Depth(m)
                 /\ Walked(Words(LocalPath(Result))) = SubSeq(names, Depth(m) + 1, Len(names))

\* The loop of vfs_get_absolute_path, whose turns do not all pass a character,
\* ends, from whatever working directory.
ResolutionEnds == at = "first_run" ~> at \in {"done", "outside"}
=============================================================================
