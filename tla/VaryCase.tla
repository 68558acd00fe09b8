-------------------------------- MODULE VaryCase --------------------------------
(***************************************************************************)
(* varycase, the program that writes an _uppercamel.inc for an .inc of     *)
(* X macros during the build, with slurp_file and file_mkdir_rec of        *)
(* deps/file.  cmake/VaryCase.cmake makes one command of each .inc file,   *)
(* and the build runs them at the same time: their outputs are different   *)
(* files, none of them a directory of another one, but in the same         *)
(* directories, which none of them may find there.                         *)
(*                                                                         *)
(* A path is the sequence of its names, the directory the build runs in    *)
(* and the root of absolute paths alike the empty one; each call into the  *)
(* operating system is a step.                                             *)
(***************************************************************************)
EXTENDS Integers, Sequences, SequencesExt

CONSTANTS Process,
          Jobs,            \* what the processes may be told to do, one of these
          Disks            \* what may be on the disk before

\* The output is a file of that name, in a directory that may be the current one, and the
\* input a text of any length.
ASSUME JobsAssumption == \A j \in Jobs :
    /\ j.output.absolute \in BOOLEAN
    /\ j.output.names # <<>> /\ j.output.names \in Seq(Range(j.output.names))
    /\ j.input \in Seq(Range(j.input))

\* The pieces a text is made of, as far as parse_xmacros can tell: "X(", ")" and
\* the characters of a name, of which it copies all between the two.
Opening == "X("
Closing == ")"
Underscore == "_"

VARIABLES disk,            \* path -> what is there
          start,           \* the disk the build found
          job,             \* what each process was told to do
          at,              \* where it is, and how it ended
          level,           \* file_mkdir_rec: how much of the path this call is about
          xmacros,
          content,         \* of the output, so far
          refused,         \* the operating system has said no to it
          lost             \* not all of its output fitted on the disk

vars == << disk, start, job, at, level, xmacros, content, refused, lost >>
local == << start, job, xmacros, content, lost >>

Directory  == [ is |-> "directory" ]
File(text) == [ is |-> "file", text |-> text ]

\* What is on a disk lies in directories.
Rooted(tree) == \A path \in DOMAIN tree : \A k \in 1..Len(path) - 1 :
    SubSeq(path, 1, k) \in DOMAIN tree /\ tree[SubSeq(path, 1, k)] = Directory
ASSUME DisksAssumption == \A tree \in Disks : Rooted(tree)

Output(p)    == job[p].output.names
Dir(p)       == Front(Output(p))                      \* str_upto(output, last_slash)
IsAbsolute(p) == job[p].output.absolute
HasSlash(p)  == IsAbsolute(p) \/ Len(Output(p)) > 1

Prefix(p, k)  == SubSeq(Output(p), 1, k)
\* The path before the first slash of an absolute one is "", which does not exist.
IsPath(p, k)  == ~(IsAbsolute(p) /\ k = 0)
Exists(p, k)  == IsPath(p, k) /\ Prefix(p, k) \in DOMAIN disk
IsDir(p, k)   == Exists(p, k) /\ disk[Prefix(p, k)] = Directory

--------------------------------------------------------------------------------

Init ==
    /\ disk \in Disks /\ start = disk
    /\ job \in { j \in [ Process -> Jobs ] :
                    \A p, q \in Process :
                        p # q => ~IsPrefix(j[p].output.names, j[q].output.names) }
    /\ at = [ p \in Process |-> "slurp" ]
    /\ level = [ p \in Process |-> 0 ]
    /\ xmacros = [ p \in Process |-> <<>> ]
    /\ content = [ p \in Process |-> <<>> ]
    /\ refused = [ p \in Process |-> FALSE ]
    /\ lost = [ p \in Process |-> FALSE ]

GoTo(p, where) == at' = [ at EXCEPT ![p] = where ]

\* A call the operating system turns down ends the program with EXIT_FAILURE.
Refused(p) ==
    /\ at[p] \in { "slurp", "rise", "open" }
    /\ refused' = [ refused EXCEPT ![p] = TRUE ]
    /\ GoTo(p, "failed")
    /\ UNCHANGED << disk, level, local >>

Slurp(p) ==
    /\ at[p] = "slurp"
    /\ GoTo(p, IF HasSlash(p) THEN "check" ELSE "parse")
    /\ UNCHANGED << disk, level, refused, local >>

\* Nothing is ever removed, so that file_exists and file_isdir may look at once.
CheckDirectory(p) ==
    /\ at[p] = "check"
    /\ LET n == Len(Dir(p)) IN
       IF ~Exists(p, n) THEN GoTo(p, "descend") /\ level' = [ level EXCEPT ![p] = n ]
       ELSE GoTo(p, IF IsDir(p, n) THEN "parse" ELSE "failed") /\ UNCHANGED level
    /\ UNCHANGED << disk, refused, local >>

\* Without a slash file_mkdir_rec returns as if it had made the directory.
NoSlash(p, k) == IF IsAbsolute(p) THEN k = 0 ELSE k <= 1

\* file_mkdir_rec, up to its recursive call.
Descend(p) ==
    LET k == level[p] IN
    /\ at[p] = "descend"
    /\ \/ /\ Exists(p, k)
          /\ GoTo(p, IF IsDir(p, k) THEN "rise" ELSE "failed") /\ UNCHANGED level
       \/ /\ ~Exists(p, k) /\ NoSlash(p, k)
          /\ GoTo(p, "rise") /\ UNCHANGED level
       \/ /\ ~Exists(p, k) /\ ~NoSlash(p, k)
          /\ level' = [ level EXCEPT ![p] = k - 1 ] /\ UNCHANGED at
    /\ UNCHANGED << disk, refused, local >>

\* Mutant: that the directory is there by now is an error as well.
MkdirStrictly(p, k) ==
    IF Exists(p, k) \/ (k > 1 /\ ~IsDir(p, k - 1)) THEN "error" ELSE "made"

\* mkdir, with EEXIST; ENOENT and ENOTDIR are for a parent that is not a directory.
Mkdir(p, k) ==
    IF Exists(p, k) THEN "nothing"
    ELSE IF k > 1 /\ ~IsDir(p, k - 1) THEN "error"
    ELSE "made"

\* One return of file_mkdir_rec; its caller makes the next directory.
Rise(p) ==
    LET k == level[p] + 1 IN
    /\ at[p] = "rise" /\ level[p] < Len(Dir(p))
    /\ LET result == Mkdir(p, k) IN
       /\ disk' = IF result = "made"
                  THEN [ path \in DOMAIN disk \cup { Prefix(p, k) } |->
                            IF path = Prefix(p, k) THEN Directory ELSE disk[path] ]
                  ELSE disk
       /\ IF result = "error" THEN GoTo(p, "failed") ELSE UNCHANGED at
       /\ level' = [ level EXCEPT ![p] = k ]
    /\ UNCHANGED << refused, local >>

Risen(p) ==
    /\ at[p] = "rise" /\ level[p] = Len(Dir(p))
    /\ GoTo(p, "parse")
    /\ UNCHANGED << disk, level, refused, local >>

--------------------------------------------------------------------------------

\* Each "X(" starts a macro, which goes up to the next ")", whatever is between them.
Openings(text) == { i \in 1..Len(text) : text[i] = Opening }
Closings(text, i) == { j \in i + 1..Len(text) : text[j] = Closing }
Nearest(places) == CHOOSE j \in places : \A k \in places : j <= k
IsClosed(text) == \A i \in Openings(text) : Closings(text, i) # {}
XMacro(text, i) == SubSeq(text, i + 1, Nearest(Closings(text, i)) - 1)
XMacros(text) ==
    FlattenSeq([ i \in 1..Len(text) |-> IF text[i] = Opening THEN << XMacro(text, i) >> ELSE <<>> ])

CanOpen(p) ==
    LET n == Len(Output(p)) IN
    /\ n > 1 => IsDir(p, n - 1)
    /\ ~IsDir(p, n)

WithFile(p, text) ==
    [ path \in DOMAIN disk \cup { Output(p) } |->
        IF path = Output(p) THEN File(text) ELSE disk[path] ]

\* Mutant: fopen comes before parse_xmacros.
ParseXMacrosOpened(p) ==
    /\ at[p] = "parse"
    /\ IF IsClosed(job[p].input)
       THEN /\ xmacros' = [ xmacros EXCEPT ![p] = XMacros(job[p].input) ] /\ GoTo(p, "open")
            /\ UNCHANGED disk
       ELSE /\ UNCHANGED xmacros /\ GoTo(p, "failed")
            /\ disk' = IF CanOpen(p) THEN WithFile(p, <<>>) ELSE disk
    /\ UNCHANGED << start, job, level, content, refused, lost >>

\* exit(EXIT_FAILURE) on a macro without an end, before the output is touched.
ParseXMacros(p) ==
    /\ at[p] = "parse"
    /\ IF IsClosed(job[p].input)
       THEN xmacros' = [ xmacros EXCEPT ![p] = XMacros(job[p].input) ] /\ GoTo(p, "open")
       ELSE UNCHANGED xmacros /\ GoTo(p, "failed")
    /\ UNCHANGED << disk, start, job, level, content, refused, lost >>

\* fopen, which empties the file.
Open(p) ==
    /\ at[p] = "open"
    /\ IF CanOpen(p) THEN disk' = WithFile(p, <<>>) /\ GoTo(p, "write")
                     ELSE UNCHANGED disk /\ GoTo(p, "failed")
    /\ UNCHANGED << level, refused, local >>

\* varycase_camel_internal: a letter after an underscore is a capital.
Camel(ident, upper) ==
    LET scan[i \in 0..Len(ident)] ==
            IF i = 0 THEN [ upper |-> upper, text |-> <<>> ]
            ELSE IF ident[i] = Underscore THEN [ scan[i - 1] EXCEPT !.upper = TRUE ]
            ELSE [ upper |-> FALSE,
                   text |-> Append(scan[i - 1].text, << ident[i], scan[i - 1].upper >>) ]
    IN scan[Len(ident)].text

KnownCases == { "camel", "uppercamel" }
Varied(p, ident) == << Opening, Camel(ident, job[p].case = "uppercamel"), Closing >>

\* As much of what was written as there is room for.
Flushed(p, text) == \E n \in 0..Len(text) :
    /\ disk' = WithFile(p, SubSeq(text, 1, n))
    /\ lost' = [ lost EXCEPT ![p] = n < Len(text) ]

\* One turn of the loop of main; an unknown case is found out in the middle of it, and
\* exit closes the file.
Write(p) ==
    LET i == Len(content[p]) + 1 IN
    /\ at[p] = "write" /\ i <= Len(xmacros[p])
    /\ IF job[p].case \in KnownCases
       THEN /\ content' = [ content EXCEPT ![p] = Append(@, Varied(p, xmacros[p][i])) ]
            /\ UNCHANGED << disk, at, lost >>
       ELSE /\ content' = [ content EXCEPT ![p] = Append(@, << Opening >>) ]
            /\ Flushed(p, content'[p])
            /\ GoTo(p, "failed")
    /\ UNCHANGED << start, job, level, xmacros, refused >>

\* Nobody looks at what fprintf, fputc and fclose return.
Close(p) ==
    /\ at[p] = "write" /\ Len(content[p]) = Len(xmacros[p])
    /\ Flushed(p, content[p])
    /\ GoTo(p, "succeeded")
    /\ UNCHANGED << start, job, level, xmacros, content, refused >>

Next == \E p \in Process :
    \/ Slurp(p) \/ CheckDirectory(p) \/ Descend(p) \/ Rise(p) \/ Risen(p)
    \/ ParseXMacros(p) \/ Open(p) \/ Write(p) \/ Close(p) \/ Refused(p)

Spec == Init /\ [][Next]_vars

--------------------------------------------------------------------------------

\* A name in camel case: what is left of it without underscores, a capital after each of
\* them and, as the case has it, at the start.
Letter(ident, i, case) ==
    << ident[i], IF i = 1 THEN case = "uppercamel" ELSE ident[i - 1] = Underscore >>
InCase(ident, case) ==
    FlattenSeq([ i \in 1..Len(ident) |->
                    IF ident[i] = Underscore THEN <<>> ELSE << Letter(ident, i, case) >> ])

\* What a process is to write.
Lines(p) ==
    LET macros == XMacros(job[p].input) IN
    [ n \in 1..Len(macros) |-> << Opening, InCase(macros[n], job[p].case), Closing >> ]

\* The output is what the build found, if it was there at all.
OutputIsKept(p) ==
    /\ Output(p) \in DOMAIN disk <=> Output(p) \in DOMAIN start
    /\ Output(p) \in DOMAIN start => disk[Output(p)] = start[Output(p)]

UnknownCase(p) == job[p].case \notin KnownCases /\ XMacros(job[p].input) # <<>>

(***************************************************************************)
(* What is left behind.  A process that succeeds has written every macro   *)
(* of its input, in order and in the case it was asked for, and nothing    *)
(* else, whatever was in the file and whatever the others did; one that    *)
(* fails has not touched what was there, but for an unknown case, which    *)
(* leaves the beginning of the first macro -- unless the disk was full,    *)
(* which none of them notices.                                             *)
(***************************************************************************)
OutputIsWholeOrKept == \A p \in Process :
    /\ at[p] = "succeeded" /\ ~lost[p] => disk[Output(p)] = File(Lines(p))
    /\ at[p] = "failed" =>
          \/ OutputIsKept(p)
          \/ UnknownCase(p) /\ (lost[p] \/ disk[Output(p)] = File(<< << Opening >> >>))

IsInTheWay(p) == \E k \in 1..Len(Output(p)) : LET path == Prefix(p, k) IN
    path \in DOMAIN start /\ (start[path] = Directory <=> k = Len(Output(p)))

Hopeless(p) == ~IsClosed(job[p].input) \/ UnknownCase(p) \/ IsInTheWay(p)

\* file_mkdir_rec does not make the first directory of a relative path.
FirstIsMissing(p) == ~IsAbsolute(p) /\ Len(Output(p)) > 1 /\ Prefix(p, 1) \notin DOMAIN start
AnotherMakesIt(p) == \E q \in Process :
    IsAbsolute(q) /\ Len(Output(q)) > 1 /\ Prefix(q, 1) = Prefix(p, 1)

(***************************************************************************)
(* Processes that make the same directories at the same time do not make   *)
(* each other fail: whoever fails was turned down by the operating system, *)
(* was given a wrong input or case, found a file where a directory should  *)
(* be or the other way round, or was given a relative path whose first     *)
(* directory was not there.  And whoever succeeds had none of these: with  *)
(* such a relative path only if another process had the same directory on  *)
(* an absolute one.                                                        *)
(***************************************************************************)
FailsForItsCause == \A p \in Process :
    /\ at[p] = "failed" => refused[p] \/ Hopeless(p) \/ FirstIsMissing(p)
    /\ at[p] = "succeeded" => ~Hopeless(p) /\ (FirstIsMissing(p) => AnotherMakesIt(p))

--------------------------------------------------------------------------------
(* What makes it inductive.                                                     *)

Places == { "slurp", "check", "descend", "rise", "parse", "open", "write", "succeeded", "failed" }
Typed ==
    /\ job \in [ Process -> Jobs ]
    /\ \A p, q \in Process : p # q => ~IsPrefix(Output(p), Output(q))
    /\ at \in [ Process -> Places ] /\ level \in [ Process -> Nat ]
    /\ refused \in [ Process -> BOOLEAN ]

\* Nothing that was there goes away or becomes something else, and what is new was
\* made by one of the processes on the way to its own output.
Kept(old, new) ==
    /\ DOMAIN old \subseteq DOMAIN new
    /\ \A path \in DOMAIN old : new[path] = Directory <=> old[path] = Directory
Made == \A path \in DOMAIN disk \ DOMAIN start :
    IF disk[path] = Directory
    THEN \E q \in Process : \E k \in 1..Len(Output(q)) - 1 :
            path = Prefix(q, k) /\ (IsAbsolute(q) \/ k > 1)
    ELSE \E q \in Process : path = Output(q)

\* The first k directories of the way are there, or something in their place, or
\* file_mkdir_rec has left out the first one of a relative path.
Prepared(p, k) == k > 0 =>
    Prefix(p, k) \in DOMAIN disk \/ (~IsAbsolute(p) /\ Prefix(p, 1) \notin DOMAIN start)

OnItsWay(p) ==
    /\ at[p] = "check" => HasSlash(p)
    /\ at[p] = "descend" =>
          level[p] \in 0..Len(Output(p)) - 1 /\ (IsAbsolute(p) \/ level[p] > 0)
    /\ at[p] = "rise" =>
          /\ level[p] \in 0..Len(Output(p)) - 1 /\ (IsAbsolute(p) \/ level[p] > 0)
          /\ Prepared(p, level[p])
    /\ at[p] \in { "parse", "open" } => Prepared(p, Len(Output(p)) - 1)
    /\ at[p] = "write" => Output(p) \in DOMAIN disk /\ disk[Output(p)] # Directory

VaryCaseInv ==
    /\ Typed /\ Kept(start, disk) /\ Made
    /\ \A p \in Process :
          /\ OnItsWay(p)
          /\ at[p] = "failed" => refused[p] \/ Hopeless(p) \/ FirstIsMissing(p)

\* What is parsed comes before what is written, and an unknown case before a whole line.
ParsedInv ==
    /\ DOMAIN at = Process /\ DOMAIN xmacros = Process /\ DOMAIN content = Process
    /\ \A p \in Process :
          /\ at[p] \in { "open", "write", "succeeded" } =>
                IsClosed(job[p].input) /\ xmacros[p] = XMacros(job[p].input)
          /\ at[p] \notin { "write", "succeeded", "failed" } => content[p] = <<>>
          /\ at[p] = "write" => content[p] = <<>> \/ job[p].case \in KnownCases

\* A process writes its lines in order, to its own file from fopen on, and nobody else
\* writes there.
WritesOn(p) ==
    /\ at[p] \notin { "write", "succeeded", "failed" } => OutputIsKept(p)
    /\ at[p] = "write" => \E n \in 0..Len(Lines(p)) : content[p] = SubSeq(Lines(p), 1, n)
    /\ at[p] = "succeeded" =>
          /\ Output(p) \in DOMAIN disk /\ disk[Output(p)] # Directory
          /\ ~lost[p] => disk[Output(p)] = File(Lines(p))
          /\ ~UnknownCase(p)
    /\ at[p] = "failed" =>
          \/ OutputIsKept(p)
          \/ UnknownCase(p) /\ (lost[p] \/ disk[Output(p)] = File(<< << Opening >> >>))

WritingInv == DOMAIN lost = Process /\ \A p \in Process : WritesOn(p)

================================================================================
