--------------------------- MODULE VaryCaseProofs ---------------------------
(***************************************************************************)
(* Theorems about any number of varycase processes that run at the same    *)
(* time, whatever they are to do and whatever was on the disk: none fails  *)
(* because of another one, and each writes the names its input asks for.   *)
(***************************************************************************)
EXTENDS VaryCase, SequenceLemmas

\* Nothing is both a directory and a file.
LEMMA FilesAreNoDirectories == \A text : File(text) # Directory
<1> SUFFICES ASSUME NEW text, File(text) = Directory PROVE FALSE
  OBVIOUS
<1>1. File(text).is = "file" /\ Directory.is = "directory"
  BY DEF File, Directory
<1> QED
  BY <1>1

--------------------------------------------------------------------------------
(* The paths.                                                                   *)

\* The first k names of a path.
LEMMA FirstNames ==
  ASSUME NEW S, NEW names \in Seq(S), NEW k \in 0..Len(names)
  PROVE  /\ SubSeq(names, 1, k) \in Seq(S) /\ Len(SubSeq(names, 1, k)) = k
         /\ k = Len(names) => SubSeq(names, 1, k) = names
         /\ IsPrefix(SubSeq(names, 1, k), names)
<1>1. PICK n \in Nat : n = Len(names)
  OBVIOUS
<1>2. k \in Nat /\ k <= n
  BY <1>1
<1>3. \A i \in 1..k : names[i] \in S
  BY <1>1, <1>2
<1> DEFINE first == SubSeq(names, 1, k)
<1>4. /\ first \in Seq(S)
      /\ Len(first) = IF 1 <= k THEN k - 1 + 1 ELSE 0
      /\ \A i \in 1..k - 1 + 1 : first[i] = names[1 + i - 1]
  BY <1>2, <1>3, SubSeqProperties
<1> HIDE DEF first
<1>5. Len(first) = k /\ \A i \in 1..k : first[i] = names[i]
  BY <1>2, <1>4
<1>6. k = n => first = names
  BY <1>1, <1>4, <1>5, SeqEqual
<1>7. SubSeq(first, 1, Len(first)) = first
  <2>1. \A i \in 1..k : first[i] \in S
    BY <1>4, <1>5
  <2> DEFINE again == SubSeq(first, 1, k)
  <2>2. /\ again \in Seq(S)
        /\ Len(again) = IF 1 <= k THEN k - 1 + 1 ELSE 0
        /\ \A i \in 1..k - 1 + 1 : again[i] = first[1 + i - 1]
    BY <1>2, <2>1, SubSeqProperties
  <2> HIDE DEF again
  <2>3. Len(again) = k /\ \A i \in 1..k : again[i] = first[i]
    BY <1>2, <2>2
  <2>4. again = first
    BY <1>4, <1>5, <2>2, <2>3, SeqEqual
  <2> QED
    BY <1>5, <2>4 DEF again
<1>8. IsPrefix(first, names)
  BY <1>1, <1>2, <1>5, <1>7 DEF IsPrefix, first
<1> QED
  BY <1>1, <1>4, <1>5, <1>6, <1>8 DEF first

LEMMA Outputs ==
  ASSUME Typed, NEW p \in Process
  PROVE  /\ job[p] \in Jobs /\ IsAbsolute(p) \in BOOLEAN
         /\ Output(p) \in Seq(Range(Output(p))) /\ Len(Output(p)) \in Nat \ { 0 }
         /\ \A k \in 0..Len(Output(p)) :
               /\ Len(Prefix(p, k)) = k /\ IsPrefix(Prefix(p, k), Output(p))
               /\ k = Len(Output(p)) => Prefix(p, k) = Output(p)
         /\ Len(Dir(p)) = Len(Output(p)) - 1
<1>1. job[p] \in Jobs
  BY DEF Typed
<1>2. /\ IsAbsolute(p) \in BOOLEAN /\ Output(p) \in Seq(Range(Output(p))) /\ Output(p) # <<>>
  BY <1>1, JobsAssumption DEF IsAbsolute, Output
<1>3. Len(Output(p)) \in Nat \ { 0 }
  BY <1>2, EmptySeq
<1>4. ASSUME NEW k \in 0..Len(Output(p))
      PROVE  /\ Len(Prefix(p, k)) = k /\ IsPrefix(Prefix(p, k), Output(p))
             /\ k = Len(Output(p)) => Prefix(p, k) = Output(p)
  BY <1>2, FirstNames DEF Prefix
<1>5. Len(Dir(p)) = Len(Output(p)) - 1
  <2>1. PICK n \in Nat \ { 0 } : n = Len(Output(p))
    BY <1>3
  <2>2. n - 1 \in 0..n
    OBVIOUS
  <2>3. Len(Prefix(p, n - 1)) = n - 1
    BY <1>4, <2>1, <2>2
  <2>4. Dir(p) = Prefix(p, n - 1)
    BY <2>1 DEF Dir, Prefix, Front
  <2> QED
    BY ONLY <2>1, <2>3, <2>4
<1> QED
  BY <1>1, <1>2, <1>3, <1>4, <1>5

\* No output is another one, nor on the way to another one or to itself.
LEMMA OutputsApart ==
  ASSUME Typed, NEW p \in Process, NEW q \in Process, NEW k \in 0..Len(Output(q)),
         Output(p) = Prefix(q, k)
  PROVE  p = q /\ k = Len(Output(q))
<1>1. IsPrefix(Prefix(q, k), Output(q)) /\ Len(Prefix(q, k)) = k
  BY Outputs
<1>2. p = q
  BY <1>1 DEF Typed
<1> QED
  BY <1>1, <1>2

LEMMA SameFirst ==
  ASSUME NEW S, NEW names \in Seq(S), NEW k \in Nat, k <= Len(names)
  PROVE  \A i \in 1..k : SubSeq(names, 1, k)[i] = names[i]
<1>1. \A i \in 1..k - 1 + 1 : SubSeq(names, 1, k)[i] = names[1 + i - 1]
  <2>1. \A i \in 1..k : names[i] \in S
    OBVIOUS
  <2> QED
    BY <2>1, SubSeqProperties
<1> QED
  BY <1>1

\* The first names of the first names.
LEMMA ShorterPrefix ==
  ASSUME Typed, NEW p \in Process, NEW k \in 0..Len(Output(p)), NEW j \in 0..k
  PROVE  SubSeq(Prefix(p, k), 1, j) = Prefix(p, j)
<1>1. PICK names, S : names = Output(p) /\ S = Range(names)
  OBVIOUS
<1>2. PICK n \in Nat : n = Len(names) /\ names \in Seq(S)
  BY <1>1, Outputs
<1>3. k \in Nat /\ j \in Nat /\ j <= k /\ k <= n /\ j \in 0..n
  BY <1>1, <1>2
<1>4. PICK long, short, again : /\ long = SubSeq(names, 1, k) /\ short = SubSeq(names, 1, j)
                                /\ again = SubSeq(long, 1, j)
  OBVIOUS
<1>5. long \in Seq(S) /\ Len(long) = k /\ short \in Seq(S) /\ Len(short) = j
  BY <1>2, <1>3, <1>4, FirstNames
<1>6. again \in Seq(S) /\ Len(again) = j
  BY <1>3, <1>4, <1>5, FirstNames
<1>7. \A i \in 1..k : long[i] = names[i]
  BY <1>2, <1>3, <1>4, SameFirst
<1>8. \A i \in 1..j : short[i] = names[i]
  BY <1>2, <1>3, <1>4, SameFirst
<1>9. \A i \in 1..j : again[i] = long[i]
  BY <1>3, <1>4, <1>5, SameFirst
<1>10. again = short
  BY <1>3, <1>5, <1>6, <1>7, <1>8, <1>9, SeqEqual
<1> QED
  BY <1>1, <1>4, <1>10 DEF Prefix

--------------------------------------------------------------------------------
(* Why a process fails.                                                         *)

\* A file where a directory should be was there before the build.
LEMMA FileInTheWay ==
  ASSUME Typed, Kept(start, disk), Made, NEW p \in Process, NEW k \in 1..Len(Output(p)) - 1,
         Prefix(p, k) \in DOMAIN disk, disk[Prefix(p, k)] # Directory
  PROVE  IsInTheWay(p)
<1>1. Len(Output(p)) \in Nat \ { 0 }
  BY Outputs
<1>2. k \in 1..Len(Output(p)) /\ k \in 0..Len(Output(p)) /\ k # Len(Output(p))
  BY <1>1
<1>3. PICK path : path = Prefix(p, k)
  OBVIOUS
<1>4. CASE path \in DOMAIN start
  BY <1>2, <1>3, <1>4 DEF Kept, IsInTheWay
<1>5. CASE path \notin DOMAIN start
  <2>1. PICK q \in Process : path = Output(q)
    BY <1>3, <1>5 DEF Made
  <2> QED
    BY <1>2, <1>3, <2>1, OutputsApart
<1> QED
  BY <1>4, <1>5

\* So was a directory where the output should be.
LEMMA DirectoryInTheWay ==
  ASSUME Typed, Kept(start, disk), Made, NEW p \in Process,
         Output(p) \in DOMAIN disk, disk[Output(p)] = Directory
  PROVE  IsInTheWay(p)
<1>1. PICK n \in Nat \ { 0 } : n = Len(Output(p))
  BY Outputs
<1>2. n \in 1..n /\ Prefix(p, n) = Output(p)
  BY <1>1, Outputs
<1>3. CASE Output(p) \in DOMAIN start
  BY <1>1, <1>2, <1>3 DEF Kept, IsInTheWay
<1>4. CASE Output(p) \notin DOMAIN start
  <2>1. PICK q \in Process : \E k \in 1..Len(Output(q)) - 1 : Output(p) = Prefix(q, k)
    BY <1>4 DEF Made
  <2>2. PICK k \in 1..Len(Output(q)) - 1 : Output(p) = Prefix(q, k)
    BY <2>1
  <2>3. Len(Output(q)) \in Nat
    BY Outputs
  <2>4. k \in 0..Len(Output(q)) /\ k # Len(Output(q))
    BY <2>3
  <2> QED
    BY <2>2, <2>4, OutputsApart
<1> QED
  BY <1>3, <1>4

\* The causes there are, and that they stay.
Cause(p, turnedDown) == turnedDown \/ Hopeless(p) \/ FirstIsMissing(p)

\* A process on a directory that is not one, or whose parent is not one.
LEMMA NotPrepared ==
  ASSUME Typed, Kept(start, disk), Made, NEW p \in Process, NEW k \in 1..Len(Output(p)) - 1,
         Prepared(p, k), ~IsDir(p, k)
  PROVE  Cause(p, FALSE)
<1>1. Len(Output(p)) \in Nat \ { 0 } /\ k # 0 /\ k > 0 /\ Len(Output(p)) > 1
  BY Outputs
<1>2. CASE Prefix(p, k) \in DOMAIN disk
  <2>1. disk[Prefix(p, k)] # Directory
    BY <1>1, <1>2 DEF IsDir, Exists, IsPath
  <2> QED
    BY <1>2, <2>1, FileInTheWay DEF Cause, Hopeless
<1>3. CASE Prefix(p, k) \notin DOMAIN disk
  BY <1>1, <1>3 DEF Prepared, Cause, FirstIsMissing
<1> QED
  BY <1>2, <1>3

--------------------------------------------------------------------------------
(* What happens to the disk.                                                    *)

LEMMA SamePaths ==
  ASSUME job' = job
  PROVE  \A p : /\ Output(p)' = Output(p) /\ IsAbsolute(p)' = IsAbsolute(p)
                /\ \A k : Prefix(p, k)' = Prefix(p, k)
BY DEF Output, IsAbsolute, Prefix

LEMMA SameCauses ==
  ASSUME UNCHANGED << job, start >>
  PROVE  \A p : Hopeless(p)' = Hopeless(p) /\ FirstIsMissing(p)' = FirstIsMissing(p)
<1>1. \A p : IsInTheWay(p)' = IsInTheWay(p)
  BY SamePaths DEF IsInTheWay
<1>2. \A p : UnknownCase(p)' = UnknownCase(p)
  BY DEF UnknownCase
<1> QED
  BY <1>1, <1>2, SamePaths DEF Hopeless, FirstIsMissing

LEMMA KeptOn ==
  ASSUME NEW old, NEW mid, NEW new, Kept(old, mid), Kept(mid, new)
  PROVE  Kept(old, new)
BY DEF Kept

LEMMA SameDisk ==
  ASSUME VaryCaseInv, UNCHANGED << disk, start, job >>
  PROVE  Kept(disk, disk') /\ Made'
<1>1. Made
  BY DEF VaryCaseInv
<1>2. Made'
  BY <1>1, SamePaths DEF Made
<1> QED
  BY <1>2 DEF Kept

\* Made, said of the disk as it will be.
MadeOf(new) == \A path \in DOMAIN new \ DOMAIN start :
    IF new[path] = Directory
    THEN \E q \in Process : \E k \in 1..Len(Output(q)) - 1 :
            path = Prefix(q, k) /\ (IsAbsolute(q) \/ k > 1)
    ELSE \E q \in Process : path = Output(q)

LEMMA MadeNext ==
  ASSUME UNCHANGED << start, job >>, NEW new, new = disk', MadeOf(new)
  PROVE  Made'
<1>1. \A q : /\ Output(q)' = Output(q) /\ IsAbsolute(q)' = IsAbsolute(q)
              /\ \A k : Prefix(q, k)' = Prefix(q, k)
  BY SamePaths
<1>2. MadeOf(disk')
  OBVIOUS
<1> QED
  BY <1>1, <1>2 DEF MadeOf, Made

LEMMA NewDirectory ==
  ASSUME VaryCaseInv, UNCHANGED << start, job >>, NEW p \in Process, NEW k \in 1..Len(Output(p)) - 1,
         ~Exists(p, k), IsAbsolute(p) \/ k > 1,
         disk' = [ path \in DOMAIN disk \cup { Prefix(p, k) } |->
                      IF path = Prefix(p, k) THEN Directory ELSE disk[path] ]
  PROVE  Kept(disk, disk') /\ Made' /\ Prefix(p, k) \in DOMAIN disk'
<1>1. Typed /\ Made
  BY DEF VaryCaseInv
<1>2. Prefix(p, k) \notin DOMAIN disk
  <2>1. Len(Output(p)) \in Nat \ { 0 }
    BY <1>1, Outputs
  <2>2. k # 0
    BY <2>1
  <2> QED
    BY <2>2 DEF Exists, IsPath
<1>3. PICK new : new = disk'
  OBVIOUS
<1>4. PICK here : here = Prefix(p, k)
  OBVIOUS
<1>5. /\ DOMAIN new = DOMAIN disk \cup { here } /\ here \notin DOMAIN disk /\ new[here] = Directory
      /\ \A path \in DOMAIN disk : new[path] = disk[path]
  BY <1>2, <1>3, <1>4
<1>6. Kept(disk, new)
  BY <1>5 DEF Kept
<1>7. ASSUME NEW path \in DOMAIN new \ DOMAIN start
      PROVE  IF new[path] = Directory
             THEN \E q \in Process : \E j \in 1..Len(Output(q)) - 1 :
                     path = Prefix(q, j) /\ (IsAbsolute(q) \/ j > 1)
             ELSE \E q \in Process : path = Output(q)
  <2>1. CASE path = here
    BY <1>4, <1>5, <2>1
  <2>2. CASE path \in DOMAIN disk
    BY <1>1, <1>5, <2>2 DEF Made
  <2> QED
    BY <1>5, <2>1, <2>2
<1>8. Made'
  BY <1>3, <1>7, MadeNext DEF MadeOf
<1> QED
  BY <1>3, <1>4, <1>5, <1>6, <1>8

LEMMA NewFile ==
  ASSUME VaryCaseInv, UNCHANGED << start, job >>, NEW p \in Process, NEW text,
         Output(p) \in DOMAIN disk => disk[Output(p)] # Directory,
         disk' = WithFile(p, text)
  PROVE  /\ Kept(disk, disk') /\ Made'
         /\ Output(p) \in DOMAIN disk' /\ disk'[Output(p)] # Directory
<1>1. Made
  BY DEF VaryCaseInv
<1>2. PICK new : new = disk'
  OBVIOUS
<1>3. PICK here : here = Output(p)
  OBVIOUS
<1>4. /\ DOMAIN new = DOMAIN disk \cup { here } /\ new[here] # Directory
      /\ \A path \in DOMAIN disk : path # here => new[path] = disk[path]
  BY <1>2, <1>3, FilesAreNoDirectories DEF WithFile
<1>5. Kept(disk, new)
  BY <1>3, <1>4 DEF Kept
<1>6. ASSUME NEW path \in DOMAIN new \ DOMAIN start
      PROVE  IF new[path] = Directory
             THEN \E q \in Process : \E j \in 1..Len(Output(q)) - 1 :
                     path = Prefix(q, j) /\ (IsAbsolute(q) \/ j > 1)
             ELSE \E q \in Process : path = Output(q)
  <2>1. CASE path = here
    BY <1>3, <1>4, <2>1
  <2>2. CASE path # here /\ path \in DOMAIN disk
    BY <1>1, <1>4, <2>2 DEF Made
  <2> QED
    BY <1>4, <2>1, <2>2
<1>7. Made'
  BY <1>2, <1>6, MadeNext DEF MadeOf
<1> QED
  BY <1>2, <1>3, <1>4, <1>5, <1>7

--------------------------------------------------------------------------------
(* One step.                                                                    *)

\* What process p does to the disk harms nobody; what it has to see to is its own way
\* and, if it fails, that there is a cause.
LEMMA Step ==
  ASSUME VaryCaseInv, UNCHANGED << start, job >>, Kept(disk, disk'), Made',
         NEW p \in Process, NEW where \in Places, GoTo(p, where),
         level' \in [ Process -> Nat ], \A q \in Process : q # p => level'[q] = level[q],
         refused' \in [ Process -> BOOLEAN ], \A q \in Process : refused[q] => refused'[q],
         OnItsWay(p)', where = "failed" => Cause(p, refused'[p])
  PROVE  VaryCaseInv'
<1>1. /\ Typed /\ Kept(start, disk) /\ Made
      /\ \A q \in Process : OnItsWay(q) /\ (at[q] = "failed" => Cause(q, refused[q]))
  BY DEF VaryCaseInv, Cause
<1>2. /\ at' \in [ Process -> Places ] /\ at'[p] = where
      /\ \A q \in Process : q # p => at'[q] = at[q]
  BY <1>1 DEF GoTo, Typed
<1>3. Typed'
  BY <1>1, <1>2, SamePaths DEF Typed
<1>4. Kept(start, disk)'
  BY <1>1, KeptOn
<1>5. ASSUME NEW q \in Process PROVE OnItsWay(q)'
  <2> SUFFICES ASSUME q # p PROVE OnItsWay(q)'
    OBVIOUS
  <2>1. OnItsWay(q) /\ at'[q] = at[q] /\ level'[q] = level[q]
    BY <1>1, <1>2
  <2>2. \A k : Prepared(q, k) => Prepared(q, k)'
    BY SamePaths DEF Prepared, Kept
  <2>3. at[q] = "write" => Output(q) \in DOMAIN disk' /\ disk'[Output(q)] # Directory
    BY <2>1 DEF OnItsWay, Kept
  <2>4. HasSlash(q)' = HasSlash(q)
    BY SamePaths DEF HasSlash
  <2> QED
    BY <2>1, <2>2, <2>3, <2>4, SamePaths DEF OnItsWay
<1>6. ASSUME NEW q \in Process, at'[q] = "failed" PROVE Cause(q, refused'[q])
  <2>1. CASE q = p
    BY <1>2, <1>6, <2>1
  <2>2. CASE q # p
    <3>1. at[q] = "failed" /\ (refused[q] => refused'[q])
      BY <1>2, <1>6, <2>2
    <3>2. Cause(q, refused[q])
      BY <1>1, <3>1
    <3> QED
      BY <3>1, <3>2 DEF Cause
  <2> QED
    BY <2>1, <2>2
<1>7. ASSUME NEW q \in Process, at'[q] = "failed"
      PROVE  refused'[q] \/ Hopeless(q)' \/ FirstIsMissing(q)'
  BY <1>6, <1>7, SameCauses DEF Cause
<1> QED
  BY <1>3, <1>4, <1>5, <1>7 DEF VaryCaseInv

LEMMA Before ==
  ASSUME VaryCaseInv, NEW p \in Process
  PROVE  /\ Typed /\ Kept(start, disk) /\ Made /\ OnItsWay(p)
         /\ at \in [ Process -> Places ] /\ level \in [ Process -> Nat ]
         /\ refused \in [ Process -> BOOLEAN ]
         /\ Len(Output(p)) \in Nat \ { 0 } /\ Len(Dir(p)) = Len(Output(p)) - 1
         /\ IsAbsolute(p) \in BOOLEAN
<1>1. Typed
  BY DEF VaryCaseInv
<1> QED
  BY <1>1, Outputs DEF VaryCaseInv, Typed

\* The steps that leave the disk alone.
LEMMA QuietStep ==
  ASSUME VaryCaseInv, UNCHANGED << disk, start, job >>,
         NEW p \in Process, NEW where \in Places, GoTo(p, where),
         NEW deep \in Nat, level' = [ level EXCEPT ![p] = deep ],
         refused' = refused \/ refused' = [ refused EXCEPT ![p] = TRUE ],
         where = "check" => HasSlash(p),
         where = "descend" => deep \in 0..Len(Output(p)) - 1 /\ (IsAbsolute(p) \/ deep > 0),
         where = "rise" => /\ deep \in 0..Len(Output(p)) - 1 /\ (IsAbsolute(p) \/ deep > 0)
                           /\ Prepared(p, deep),
         where \in { "parse", "open" } => Prepared(p, Len(Output(p)) - 1),
         where # "write",
         where = "failed" => Cause(p, refused'[p])
  PROVE  VaryCaseInv'
<1>1. at \in [ Process -> Places ] /\ level \in [ Process -> Nat ] /\ refused \in [ Process -> BOOLEAN ]
  BY Before
<1>2. Kept(disk, disk') /\ Made'
  BY SameDisk
<1>3. at'[p] = where /\ level'[p] = deep
  BY <1>1 DEF GoTo
<1>4. /\ level' \in [ Process -> Nat ] /\ \A q \in Process : q # p => level'[q] = level[q]
      /\ refused' \in [ Process -> BOOLEAN ] /\ \A q \in Process : refused[q] => refused'[q]
  BY <1>1
<1>5. \A k : Prepared(p, k)' = Prepared(p, k)
  BY SamePaths DEF Prepared
<1>6. HasSlash(p)' = HasSlash(p)
  BY SamePaths DEF HasSlash
<1>7. OnItsWay(p)'
  BY <1>3, <1>5, <1>6, SamePaths DEF OnItsWay
<1> QED
  BY <1>2, <1>4, <1>7, Step

\* A step that does not go into the path either.
LEMMA StayStep ==
  ASSUME VaryCaseInv, UNCHANGED << disk, start, job, level >>,
         NEW p \in Process, NEW where \in Places \ { "descend", "rise", "write" }, GoTo(p, where),
         refused' = refused \/ refused' = [ refused EXCEPT ![p] = TRUE ],
         where = "check" => HasSlash(p),
         where \in { "parse", "open" } => Prepared(p, Len(Output(p)) - 1),
         where = "failed" => Cause(p, refused'[p])
  PROVE  VaryCaseInv'
<1>1. PICK deep \in Nat : deep = level[p]
  BY Before
<1>2. level' = [ level EXCEPT ![p] = deep ]
  BY <1>1, Before
<1> QED
  BY <1>2, QuietStep

LEMMA RefusedStep == \A p \in Process : VaryCaseInv /\ Refused(p) => VaryCaseInv'
<1> SUFFICES ASSUME NEW p \in Process, VaryCaseInv, Refused(p) PROVE VaryCaseInv'
  OBVIOUS
<1>1. /\ refused' = [ refused EXCEPT ![p] = TRUE ] /\ GoTo(p, "failed")
      /\ UNCHANGED << disk, start, job, level >>
  BY DEF Refused, local
<1>2. refused'[p]
  BY <1>1, Before
<1>3. Cause(p, refused'[p])
  BY <1>2 DEF Cause
<1> QED
  BY <1>1, <1>3, StayStep DEF Places

LEMMA SlurpStep == \A p \in Process : VaryCaseInv /\ Slurp(p) => VaryCaseInv'
<1> SUFFICES ASSUME NEW p \in Process, VaryCaseInv, Slurp(p) PROVE VaryCaseInv'
  OBVIOUS
<1>1. /\ GoTo(p, IF HasSlash(p) THEN "check" ELSE "parse")
      /\ UNCHANGED << disk, start, job, level, refused >>
  BY DEF Slurp, local
<1>2. CASE HasSlash(p)
  BY <1>1, <1>2, StayStep DEF Places
<1>3. CASE ~HasSlash(p)
  <2>1. Len(Output(p)) = 1
    <3>1. PICK m \in Nat \ { 0 } : m = Len(Output(p))
      BY Before
    <3> QED
      BY <1>3, <3>1 DEF HasSlash
  <2>2. Prepared(p, Len(Output(p)) - 1)
    BY <2>1 DEF Prepared
  <2> QED
    BY <1>1, <1>3, <2>2, StayStep DEF Places
<1> QED
  BY <1>2, <1>3

\* What CheckDirectory and Descend find out about the first k directories.
LEMMA Looked ==
  ASSUME VaryCaseInv, NEW p \in Process, NEW k \in 0..Len(Output(p)) - 1, Exists(p, k)
  PROVE  /\ Prepared(p, k)
         /\ ~IsDir(p, k) => k = 0 \/ Cause(p, refused[p])
<1>1. Prepared(p, k)
  BY DEF Exists, Prepared
<1>2. k # 0 => k \in 1..Len(Output(p)) - 1
  BY Before
<1>3. ~IsDir(p, k) => k = 0 \/ Cause(p, FALSE)
  BY <1>1, <1>2, Before, NotPrepared
<1> QED
  BY <1>1, <1>3 DEF Cause

LEMMA CheckDirectoryStep == \A p \in Process : VaryCaseInv /\ CheckDirectory(p) => VaryCaseInv'
<1> SUFFICES ASSUME NEW p \in Process, VaryCaseInv, CheckDirectory(p) PROVE VaryCaseInv'
  OBVIOUS
<1>1. PICK n \in Nat : n = Len(Dir(p)) /\ n \in 0..Len(Output(p)) - 1 /\ n = Len(Output(p)) - 1
  <2>1. PICK m \in Nat \ { 0 } : m = Len(Output(p))
    BY Before
  <2>2. Len(Dir(p)) = m - 1
    BY <2>1, Before
  <2> QED
    BY <2>1, <2>2
<1>2. /\ HasSlash(p) /\ UNCHANGED << disk, start, job, refused >>
      /\ IF ~Exists(p, n) THEN GoTo(p, "descend") /\ level' = [ level EXCEPT ![p] = n ]
         ELSE GoTo(p, IF IsDir(p, n) THEN "parse" ELSE "failed") /\ UNCHANGED level
  BY <1>1, Before DEF CheckDirectory, OnItsWay, local
<1>3. IsAbsolute(p) \/ n > 0
  BY <1>1, <1>2, Before DEF HasSlash
<1>4. CASE ~Exists(p, n)
  BY <1>1, <1>2, <1>3, <1>4, QuietStep DEF Places
<1>5. CASE Exists(p, n) /\ IsDir(p, n)
  <2>1. Prepared(p, n)
    BY <1>1, <1>5, Looked
  <2> QED
    BY <1>1, <1>2, <1>5, <2>1, StayStep DEF Places
<1>6. CASE Exists(p, n) /\ ~IsDir(p, n)
  <2>1. n # 0
    BY <1>1, <1>3, <1>6 DEF Exists, IsPath
  <2>2. Cause(p, refused'[p])
    BY <1>1, <1>2, <1>6, <2>1, Looked
  <2> QED
    BY <1>2, <1>6, <2>2, StayStep DEF Places
<1> QED
  BY <1>4, <1>5, <1>6

LEMMA DescendStep == \A p \in Process : VaryCaseInv /\ Descend(p) => VaryCaseInv'
<1> SUFFICES ASSUME NEW p \in Process, VaryCaseInv, Descend(p) PROVE VaryCaseInv'
  OBVIOUS
<1>1. PICK k \in Nat : /\ k = level[p] /\ at[p] = "descend"
                       /\ k \in 0..Len(Output(p)) - 1 /\ (IsAbsolute(p) \/ k > 0)
  BY Before DEF Descend, OnItsWay
<1>2. /\ UNCHANGED << disk, start, job, refused >>
      /\ \/ /\ Exists(p, k)
            /\ GoTo(p, IF IsDir(p, k) THEN "rise" ELSE "failed") /\ UNCHANGED level
         \/ /\ ~Exists(p, k) /\ NoSlash(p, k)
            /\ GoTo(p, "rise") /\ UNCHANGED level
         \/ /\ ~Exists(p, k) /\ ~NoSlash(p, k)
            /\ level' = [ level EXCEPT ![p] = k - 1 ] /\ UNCHANGED at
  BY <1>1 DEF Descend, local
<1>3. level = [ level EXCEPT ![p] = k ] /\ at = [ at EXCEPT ![p] = "descend" ]
  BY <1>1, Before
<1>4. CASE Exists(p, k) /\ IsDir(p, k) /\ GoTo(p, "rise") /\ UNCHANGED level
  <2>1. Prepared(p, k)
    BY <1>1, <1>4, Looked
  <2> QED
    BY <1>1, <1>2, <1>3, <1>4, <2>1, QuietStep DEF Places
<1>5. CASE Exists(p, k) /\ ~IsDir(p, k) /\ GoTo(p, "failed") /\ UNCHANGED level
  <2>1. k # 0
    BY <1>1, <1>5 DEF Exists, IsPath
  <2>2. Cause(p, refused'[p])
    BY <1>1, <1>2, <1>5, <2>1, Looked
  <2> QED
    BY <1>2, <1>5, <2>2, StayStep DEF Places
<1>6. CASE ~Exists(p, k) /\ NoSlash(p, k) /\ GoTo(p, "rise") /\ UNCHANGED level
  <2>1. Prepared(p, k)
    <3>1. CASE IsAbsolute(p)
      BY <1>6, <3>1 DEF NoSlash, Prepared
    <3>2. CASE ~IsAbsolute(p)
      <4>1. k = 1 /\ Prefix(p, 1) \notin DOMAIN disk
        BY <1>1, <1>6, <3>2 DEF NoSlash, Exists, IsPath
      <4>2. Prefix(p, 1) \notin DOMAIN start
        BY <4>1, Before DEF Kept
      <4> QED
        BY <3>2, <4>2 DEF Prepared
    <3> QED
      BY <3>1, <3>2
  <2> QED
    BY <1>1, <1>2, <1>3, <1>6, <2>1, QuietStep DEF Places
<1>7. CASE ~Exists(p, k) /\ ~NoSlash(p, k) /\ level' = [ level EXCEPT ![p] = k - 1 ] /\ UNCHANGED at
  <2>1. k # 0 /\ (IsAbsolute(p) \/ k > 1)
    BY <1>1, <1>7 DEF NoSlash
  <2>2. PICK up \in Nat : /\ up = k - 1 /\ up \in 0..Len(Output(p)) - 1
                          /\ (IsAbsolute(p) \/ up > 0)
    BY <1>1, <2>1, Before
  <2>3. GoTo(p, "descend")
    BY <1>3, <1>7 DEF GoTo
  <2> QED
    BY <1>2, <1>7, <2>2, <2>3, QuietStep DEF Places
<1> QED
  BY <1>2, <1>4, <1>5, <1>6, <1>7

LEMMA RiseStep == \A p \in Process : VaryCaseInv /\ Rise(p) => VaryCaseInv'
<1> SUFFICES ASSUME NEW p \in Process, VaryCaseInv, Rise(p) PROVE VaryCaseInv'
  OBVIOUS
<1>1. PICK m \in Nat \ { 0 } : m = Len(Output(p)) /\ Len(Dir(p)) = m - 1
  BY Before
<1>2. PICK l \in Nat : /\ l = level[p] /\ l < m - 1 /\ at[p] = "rise" /\ Prepared(p, l)
                       /\ (IsAbsolute(p) \/ l > 0)
  BY <1>1, Before DEF Rise, OnItsWay
<1>3. PICK k \in 1..m - 1 : k = l + 1 /\ k \in Nat /\ k \in 0..m - 1 /\ k > 0 /\ (IsAbsolute(p) \/ k > 1)
  BY <1>2
<1>4. /\ disk' = IF Mkdir(p, k) = "made"
                 THEN [ path \in DOMAIN disk \cup { Prefix(p, k) } |->
                           IF path = Prefix(p, k) THEN Directory ELSE disk[path] ]
                 ELSE disk
      /\ IF Mkdir(p, k) = "error" THEN GoTo(p, "failed") ELSE UNCHANGED at
      /\ level' = [ level EXCEPT ![p] = k ]
      /\ UNCHANGED << start, job, refused >>
  BY <1>2, <1>3 DEF Rise, local
<1>5. level' \in [ Process -> Nat ] /\ level'[p] = k /\ \A q \in Process : q # p => level'[q] = level[q]
  BY <1>3, <1>4, Before
<1>6. refused' \in [ Process -> BOOLEAN ] /\ \A q \in Process : refused[q] => refused'[q]
  BY <1>4, Before
<1>7. CASE Mkdir(p, k) = "made"
  <2>1. ~Exists(p, k)
    BY <1>7 DEF Mkdir
  <2>2. Kept(disk, disk') /\ Made' /\ Prefix(p, k) \in DOMAIN disk'
    BY <1>1, <1>3, <1>4, <1>7, <2>1, NewDirectory
  <2>3. GoTo(p, "rise")
    BY <1>2, <1>4, <1>7, Before DEF GoTo
  <2>4. at'[p] = "rise"
    BY <2>3, Before DEF GoTo
  <2>5. OnItsWay(p)'
    BY <1>1, <1>3, <1>4, <1>5, <2>2, <2>4, SamePaths DEF OnItsWay, Prepared
  <2> QED
    BY <1>4, <1>5, <1>6, <2>2, <2>3, <2>5, Step DEF Places
<1>8. CASE Mkdir(p, k) = "nothing"
  <2>1. Exists(p, k)
    BY <1>8 DEF Mkdir
  <2>2. Prepared(p, k)
    BY <2>1 DEF Exists, Prepared
  <2>3. GoTo(p, "rise")
    BY <1>2, <1>4, <1>8, Before DEF GoTo
  <2> QED
    BY <1>1, <1>3, <1>4, <1>8, <2>2, <2>3, QuietStep DEF Places
<1>9. CASE Mkdir(p, k) = "error"
  <2>1. k > 1 /\ ~IsDir(p, k - 1)
    BY <1>9 DEF Mkdir
  <2>2. l \in 1..m - 1 /\ k - 1 = l
    BY <1>2, <1>3, <2>1
  <2>3. Cause(p, FALSE)
    BY <1>1, <1>2, <2>1, <2>2, Before, NotPrepared
  <2>4. Cause(p, refused'[p])
    BY <2>3 DEF Cause
  <2> QED
    BY <1>3, <1>4, <1>9, <2>4, QuietStep DEF Places
<1> QED
  BY <1>7, <1>8, <1>9 DEF Mkdir

LEMMA RisenStep == \A p \in Process : VaryCaseInv /\ Risen(p) => VaryCaseInv'
<1> SUFFICES ASSUME NEW p \in Process, VaryCaseInv, Risen(p) PROVE VaryCaseInv'
  OBVIOUS
<1>1. /\ GoTo(p, "parse") /\ UNCHANGED << disk, start, job, level, refused >>
      /\ Prepared(p, Len(Output(p)) - 1)
  BY Before DEF Risen, OnItsWay, local
<1> QED
  BY <1>1, StayStep DEF Places

LEMMA ParseXMacrosStep == \A p \in Process : VaryCaseInv /\ ParseXMacros(p) => VaryCaseInv'
<1> SUFFICES ASSUME NEW p \in Process, VaryCaseInv, ParseXMacros(p) PROVE VaryCaseInv'
  OBVIOUS
<1>1. UNCHANGED << disk, start, job, level, refused >> /\ Prepared(p, Len(Output(p)) - 1)
  BY Before DEF ParseXMacros, OnItsWay
<1>2. CASE IsClosed(job[p].input)
  <2>1. GoTo(p, "open")
    BY <1>2 DEF ParseXMacros
  <2> QED
    BY <1>1, <2>1, StayStep DEF Places
<1>3. CASE ~IsClosed(job[p].input)
  <2>1. GoTo(p, "failed") /\ Cause(p, refused'[p])
    BY <1>3 DEF ParseXMacros, Cause, Hopeless
  <2> QED
    BY <1>1, <2>1, StayStep DEF Places
<1> QED
  BY <1>2, <1>3

\* A process that writes, to an output that is its own and a file.
LEMMA WritingStep ==
  ASSUME VaryCaseInv, UNCHANGED << start, job, level, refused >>,
         NEW p \in Process, NEW text, disk' = WithFile(p, text),
         Output(p) \in DOMAIN disk => disk[Output(p)] # Directory,
         NEW where \in { "write", "succeeded", "failed" }, GoTo(p, where),
         where = "failed" => Cause(p, refused'[p])
  PROVE  VaryCaseInv'
<1>1. /\ Kept(disk, disk') /\ Made'
      /\ Output(p) \in DOMAIN disk' /\ disk'[Output(p)] # Directory
  BY NewFile
<1>2. at'[p] = where
  BY Before DEF GoTo
<1>3. OnItsWay(p)'
  BY <1>1, <1>2, SamePaths DEF OnItsWay
<1>4. /\ level' \in [ Process -> Nat ] /\ \A q \in Process : q # p => level'[q] = level[q]
      /\ refused' \in [ Process -> BOOLEAN ] /\ \A q \in Process : refused[q] => refused'[q]
  BY Before
<1>5. where \in Places
  BY DEF Places
<1> QED
  BY <1>1, <1>3, <1>4, <1>5, Step

LEMMA OpenStep == \A p \in Process : VaryCaseInv /\ Open(p) => VaryCaseInv'
<1> SUFFICES ASSUME NEW p \in Process, VaryCaseInv, Open(p) PROVE VaryCaseInv'
  OBVIOUS
<1>1. PICK n \in Nat \ { 0 } : n = Len(Output(p))
  BY Before
<1>2. /\ UNCHANGED << start, job, level, refused >>
      /\ IF CanOpen(p) THEN disk' = WithFile(p, <<>>) /\ GoTo(p, "write")
                       ELSE UNCHANGED disk /\ GoTo(p, "failed")
  BY DEF Open, local
<1>3. Prefix(p, n) = Output(p) /\ IsPath(p, n)
  BY <1>1, Before, Outputs DEF IsPath
<1>4. CASE CanOpen(p)
  <2>1. Output(p) \in DOMAIN disk => disk[Output(p)] # Directory
    BY <1>1, <1>3, <1>4 DEF CanOpen, IsDir, Exists
  <2> QED
    BY <1>2, <1>4, <2>1, WritingStep
<1>5. CASE ~CanOpen(p)
  <2>1. CASE IsDir(p, n)
    <3>1. IsInTheWay(p)
      BY <1>3, <2>1, Before, DirectoryInTheWay DEF IsDir, Exists
    <3> QED
      BY <1>2, <1>5, <3>1, StayStep DEF Places, Cause, Hopeless
  <2>2. CASE n > 1 /\ ~IsDir(p, n - 1)
    <3>1. PICK k \in 1..n - 1 : k = n - 1
      BY <2>2
    <3>2. Prepared(p, k)
      BY <1>1, <3>1, Before DEF Open, OnItsWay
    <3>3. Cause(p, FALSE)
      BY <1>1, <2>2, <3>1, <3>2, Before, NotPrepared
    <3> QED
      BY <1>2, <1>5, <3>3, StayStep DEF Places, Cause
  <2> QED
    BY <1>1, <1>5, <2>1, <2>2 DEF CanOpen
<1> QED
  BY <1>4, <1>5

\* A step that goes nowhere.
LEMMA SamePlace ==
  ASSUME VaryCaseInv, UNCHANGED << disk, start, job, at, level, refused >>
  PROVE  VaryCaseInv'
<1>1. Made'
  BY SameDisk
<1>2. \A p : /\ Output(p)' = Output(p) /\ IsAbsolute(p)' = IsAbsolute(p)
             /\ \A k : Prefix(p, k)' = Prefix(p, k)
  BY SamePaths
<1>3. \A p \in Process : OnItsWay(p)'
  BY <1>2 DEF VaryCaseInv, OnItsWay, HasSlash, Prepared
<1>4. Typed' /\ Kept(start, disk)'
  BY <1>2 DEF VaryCaseInv, Typed
<1>5. \A p \in Process : at'[p] = "failed" => refused'[p] \/ Hopeless(p)' \/ FirstIsMissing(p)'
  BY SameCauses DEF VaryCaseInv
<1> QED
  BY <1>1, <1>3, <1>4, <1>5 DEF VaryCaseInv

LEMMA WritesSomething ==
  ASSUME ParsedInv, NEW p \in Process, Write(p), job[p].case \notin KnownCases
  PROVE  content[p] = <<>> /\ XMacros(job[p].input) # <<>>
<1>1. /\ xmacros[p] = XMacros(job[p].input) /\ Len(content[p]) + 1 <= Len(xmacros[p])
      /\ content[p] = <<>>
  BY DEF ParsedInv, Write
<1> QED
  BY <1>1

LEMMA WriteStep == \A p \in Process : VaryCaseInv /\ ParsedInv /\ Write(p) => VaryCaseInv'
<1> SUFFICES ASSUME NEW p \in Process, VaryCaseInv, ParsedInv, Write(p) PROVE VaryCaseInv'
  OBVIOUS
<1>1. /\ UNCHANGED << start, job, level, refused >> /\ at[p] = "write"
      /\ Output(p) \in DOMAIN disk /\ disk[Output(p)] # Directory
  BY Before DEF Write, OnItsWay
<1>2. CASE job[p].case \in KnownCases
  <2>1. UNCHANGED << disk, at >>
    BY <1>2 DEF Write
  <2> QED
    BY <1>1, <2>1, SamePlace
<1>3. CASE job[p].case \notin KnownCases
  <2>1. PICK text : disk' = WithFile(p, text)
    BY <1>3 DEF Write, Flushed
  <2>2. GoTo(p, "failed")
    BY <1>3 DEF Write
  <2>3. UnknownCase(p)
    BY <1>1, <1>3, WritesSomething DEF UnknownCase
  <2>4. Cause(p, refused'[p])
    BY <2>3 DEF Cause, Hopeless
  <2> QED
    BY <1>1, <2>1, <2>2, <2>4, WritingStep
<1> QED
  BY <1>2, <1>3

LEMMA CloseStep == \A p \in Process : VaryCaseInv /\ Close(p) => VaryCaseInv'
<1> SUFFICES ASSUME NEW p \in Process, VaryCaseInv, Close(p) PROVE VaryCaseInv'
  OBVIOUS
<1>1. /\ UNCHANGED << start, job, level, refused >> /\ GoTo(p, "succeeded")
      /\ Output(p) \in DOMAIN disk /\ disk[Output(p)] # Directory
  BY Before DEF Close, OnItsWay
<1>2. PICK text : disk' = WithFile(p, text)
  BY DEF Close, Flushed
<1> QED
  BY <1>1, <1>2, WritingStep

LEMMA InitInv == Init => VaryCaseInv
<1> SUFFICES ASSUME Init PROVE VaryCaseInv
  OBVIOUS
<1>1. Typed
  BY DEF Init, Typed, Output, Places
<1>2. Kept(start, disk) /\ Made
  BY DEF Init, Kept, Made
<1>3. \A p \in Process : at[p] = "slurp"
  BY DEF Init
<1>4. \A p \in Process : OnItsWay(p)
  BY <1>3 DEF OnItsWay
<1> QED
  BY <1>1, <1>2, <1>3, <1>4 DEF VaryCaseInv

\* What a process writes is parsed before, and parsed once.
THEOREM ParsedInvariant == Spec => []ParsedInv
<1>1. Init => ParsedInv
  BY DEF Init, ParsedInv
<1>2. ParsedInv /\ [Next]_vars => ParsedInv'
  <2> SUFFICES ASSUME ParsedInv, [Next]_vars PROVE ParsedInv'
    OBVIOUS
  <2>1. ASSUME NEW p \in Process, ParseXMacros(p) PROVE ParsedInv'
    BY <2>1 DEF ParsedInv, ParseXMacros, GoTo
  <2>2. ASSUME NEW p \in Process,
               Slurp(p) \/ CheckDirectory(p) \/ Descend(p) \/ Rise(p) \/ Risen(p) \/ Refused(p)
        PROVE  ParsedInv'
    <3>1. UNCHANGED << job, xmacros, content >> /\ at[p] \notin { "write", "succeeded", "failed" }
      BY <2>2 DEF Slurp, CheckDirectory, Descend, Rise, Risen, Refused, local
    <3>2. \E where \in { "check", "descend", "rise", "parse", "failed" } :
             GoTo(p, where) \/ UNCHANGED at
      BY <2>2 DEF Slurp, CheckDirectory, Descend, Rise, Risen, Refused
    <3> QED
      BY <3>1, <3>2 DEF ParsedInv, GoTo
  <2>3. ASSUME NEW p \in Process, Open(p) \/ Close(p) PROVE ParsedInv'
    <3>1. UNCHANGED << job, xmacros, content >> /\ at[p] \in { "open", "write" }
      BY <2>3 DEF Open, Close, local
    <3>2. \/ GoTo(p, "write") /\ at[p] = "open"
          \/ GoTo(p, "failed")
          \/ GoTo(p, "succeeded")
      BY <2>3 DEF Open, Close
    <3> QED
      BY <3>1, <3>2 DEF ParsedInv, GoTo
  <2>4. ASSUME NEW p \in Process, Write(p) PROVE ParsedInv'
    <3>1. /\ UNCHANGED << job, xmacros >> /\ at[p] = "write"
          /\ DOMAIN content' = DOMAIN content /\ \A q \in Process : q # p => content'[q] = content[q]
      BY <2>4 DEF Write, ParsedInv
    <3>2. (UNCHANGED at /\ job[p].case \in KnownCases) \/ GoTo(p, "failed")
      BY <2>4 DEF Write
    <3> QED
      BY <3>1, <3>2 DEF ParsedInv, GoTo
  <2>5. CASE UNCHANGED vars
    BY <2>5 DEF vars, ParsedInv
  <2> QED
    BY <2>1, <2>2, <2>3, <2>4, <2>5 DEF Next
<1> QED
  BY <1>1, <1>2, PTL DEF Spec

\* The invariant of the disk and of where each process is on its way.
THEOREM VaryCaseInvariant == Spec => []VaryCaseInv
<1>1. Init => VaryCaseInv
  BY InitInv
<1>2. VaryCaseInv /\ ParsedInv /\ [Next]_vars => VaryCaseInv'
  <2> SUFFICES ASSUME VaryCaseInv, ParsedInv, [Next]_vars PROVE VaryCaseInv'
    OBVIOUS
  <2>1. CASE Next
    BY <2>1, SlurpStep, CheckDirectoryStep, DescendStep, RiseStep, RisenStep, ParseXMacrosStep,
       OpenStep, WriteStep, CloseStep, RefusedStep
    DEF Next
  <2>2. CASE UNCHANGED vars
    <3>1. UNCHANGED << disk, start, job, at, level, refused >>
      BY <2>2 DEF vars
    <3> QED
      BY <3>1, SamePlace
  <2> QED
    BY <2>1, <2>2
<1> QED
  BY <1>1, <1>2, ParsedInvariant, PTL DEF Spec

--------------------------------------------------------------------------------
(* A name in another case.                                                      *)

LEMMA SameFlatten == \A seqs : FlattenSeq(seqs) = Seqs!FlattenSeq(seqs)
BY Zenon DEF FlattenSeq, Seqs!FlattenSeq

\* varycase_camel_internal after the first i characters, and after one more.
Scanned(old, ident, i) ==
    IF ident[i] = Underscore THEN [ old EXCEPT !.upper = TRUE ]
    ELSE [ upper |-> FALSE, text |-> Append(old.text, << ident[i], old.upper >>) ]
Scans(scan, ident, upper, n) ==
    scan = [ i \in 0..n |-> IF i = 0 THEN [ upper |-> upper, text |-> <<>> ]
                            ELSE Scanned(scan[i - 1], ident, i) ]

LEMMA ScanExists ==
  ASSUME NEW ident, NEW upper, NEW n \in Nat
  PROVE  \E scan : Scans(scan, ident, upper, n)
<1> DEFINE T == { m \in 0..n : ~\E scan : Scans(scan, ident, upper, m) }
<1>1. T = {}
  <2> SUFFICES ASSUME T # {} PROVE FALSE
    OBVIOUS
  <2>1. PICK m \in T : \A other \in T : m <= other
    <3>1. T \subseteq Nat
      OBVIOUS
    <3> QED
      BY <3>1, LeastElement
  <2> HIDE DEF T
  <2>2. m \in 0..n /\ ~\E scan : Scans(scan, ident, upper, m)
    BY <2>1 DEF T
  <2>3. PICK first : first = [ upper |-> upper, text |-> <<>> ]
    OBVIOUS
  <2>4. CASE m = 0
    <3>1. PICK f : f = [ i \in 0..0 |-> first ]
      OBVIOUS
    <3>2. f = [ i \in 0..0 |-> IF i = 0 THEN first ELSE Scanned(f[i - 1], ident, i) ]
      BY <3>1
    <3>3. Scans(f, ident, upper, 0)
      BY <2>3, <3>2 DEF Scans
    <3> QED
      BY <2>2, <2>4, <3>3
  <2>5. CASE m # 0
    <3>1. PICK l \in 0..n : m = l + 1
      BY <2>2, <2>5
    <3>2. l \notin T
      BY <2>1, <3>1
    <3>3. PICK f : Scans(f, ident, upper, l)
      BY <3>1, <3>2 DEF T
    <3>4. PICK g : g = [ i \in 0..m |-> IF i = 0 THEN first ELSE Scanned(f[i - 1], ident, i) ]
      OBVIOUS
    <3>5. ASSUME NEW i \in 0..l PROVE g[i] = f[i]
      <4>1. i \in 0..m
        BY <3>1
      <4>2. f[i] = IF i = 0 THEN first ELSE Scanned(f[i - 1], ident, i)
        BY <2>3, <3>3 DEF Scans
      <4> QED
        BY <3>4, <4>1, <4>2
    <3>6. ASSUME NEW i \in 0..m PROVE g[i] = IF i = 0 THEN first ELSE Scanned(g[i - 1], ident, i)
      <4>1. i # 0 => i - 1 \in 0..l
        BY <3>1
      <4>2. i # 0 => g[i - 1] = f[i - 1]
        BY <3>5, <4>1
      <4> QED
        BY <3>4, <4>2
    <3>7. Scans(g, ident, upper, m)
      <4>1. g = [ i \in 0..m |-> g[i] ]
        BY <3>4
      <4>2. [ i \in 0..m |-> g[i] ]
              = [ i \in 0..m |-> IF i = 0 THEN first ELSE Scanned(g[i - 1], ident, i) ]
        BY <3>6
      <4> QED
        BY <2>3, <4>1, <4>2 DEF Scans
    <3> QED
      BY <2>2, <3>7
  <2> QED
    BY <2>4, <2>5
<1>2. n \in 0..n
  OBVIOUS
<1> QED
  BY <1>1, <1>2

LEMMA CamelScans ==
  ASSUME NEW ident, NEW upper, NEW n \in Nat, n = Len(ident)
  PROVE  \E scan : Scans(scan, ident, upper, n) /\ Camel(ident, upper) = scan[n].text
<1> DEFINE F == CHOOSE scan : scan = [ i \in 0..n |->
                    IF i = 0 THEN [ upper |-> upper, text |-> <<>> ]
                    ELSE IF ident[i] = Underscore THEN [ scan[i - 1] EXCEPT !.upper = TRUE ]
                    ELSE [ upper |-> FALSE,
                           text |-> Append(scan[i - 1].text, << ident[i], scan[i - 1].upper >>) ] ]
<1>1. F = [ i \in 0..n |->
                    IF i = 0 THEN [ upper |-> upper, text |-> <<>> ]
                    ELSE IF ident[i] = Underscore THEN [ F[i - 1] EXCEPT !.upper = TRUE ]
                    ELSE [ upper |-> FALSE,
                           text |-> Append(F[i - 1].text, << ident[i], F[i - 1].upper >>) ] ]
  <2>1. \E scan : scan = [ i \in 0..n |->
                    IF i = 0 THEN [ upper |-> upper, text |-> <<>> ]
                    ELSE IF ident[i] = Underscore THEN [ scan[i - 1] EXCEPT !.upper = TRUE ]
                    ELSE [ upper |-> FALSE,
                           text |-> Append(scan[i - 1].text, << ident[i], scan[i - 1].upper >>) ] ]
    <3>1. PICK scan : Scans(scan, ident, upper, n)
      BY ScanExists
    <3> QED
      BY <3>1, Zenon DEF Scans, Scanned
  <2> QED
    BY <2>1, Zenon
<1>2. Camel(ident, upper) = F[n].text
  BY Zenon DEF Camel
<1> HIDE DEF F
<1>3. Scans(F, ident, upper, n)
  BY <1>1, Zenon DEF Scans, Scanned
<1> QED
  BY <1>2, <1>3

\* The letters that a name is made of, each with what is left of the ones before it.
Letters(ident, case) ==
    [ i \in 1..Len(ident) |-> IF ident[i] = Underscore THEN <<>> ELSE << Letter(ident, i, case) >> ]

\* One character after the other or all of them by what precedes them: the names are the same.
LEMMA CamelIs ==
  ASSUME NEW S, NEW ident \in Seq(S), NEW case
  PROVE  Camel(ident, case = "uppercamel") = InCase(ident, case)
<1>1. PICK n \in Nat : n = Len(ident)
  OBVIOUS
<1>2. PICK upper : upper = (case = "uppercamel")
  OBVIOUS
<1>3. PICK scan : Scans(scan, ident, upper, n) /\ Camel(ident, case = "uppercamel") = scan[n].text
  BY <1>1, <1>2, CamelScans
<1>4. PICK pieces : pieces = Letters(ident, case)
  OBVIOUS
<1>5. InCase(ident, case) = Seqs!FlattenSeq(pieces)
  BY <1>4, SameFlatten DEF InCase, Letters
<1>6. Len(pieces) = n
  BY <1>1, <1>4 DEF Letters
<1>7. scan[0] = [ upper |-> upper, text |-> <<>> ]
  <2>1. 0 \in 0..n
    BY <1>1
  <2> QED
    BY <1>3, <2>1 DEF Scans
<1>8. CASE n = 0
  <2>1. pieces = <<>>
    BY <1>1, <1>4, <1>8 DEF Letters
  <2>2. Seqs!FlattenSeq(pieces) = <<>>
    BY <1>6, <1>8, <2>1, FlattenNone
  <2> QED
    BY <1>3, <1>5, <1>7, <1>8, <2>2
<1>9. CASE n # 0
  <2>1. PICK f : Flattens(f, pieces, n) /\ Seqs!FlattenSeq(pieces) = f[n]
    BY <1>6, <1>9, FlattenIs
  <2> DEFINE Upper(i) == IF i = 0 THEN upper ELSE ident[i] = Underscore
             L == { Letter(ident, i, case) : i \in 1..n }
             T == { i \in 1..n : ~(f[i] \in Seq(L) /\ scan[i] = [ upper |-> Upper(i), text |-> f[i] ]) }
  <2>2. T = {}
    <3> SUFFICES ASSUME T # {} PROVE FALSE
      OBVIOUS
    <3>1. PICK i \in T : \A other \in T : i <= other
      <4>1. T \subseteq Nat
        OBVIOUS
      <4> QED
        BY <4>1, LeastElement
    <3>2. i \in 1..n /\ i \in 0..n /\ ~(f[i] \in Seq(L) /\ scan[i] = [ upper |-> Upper(i), text |-> f[i] ])
      BY <3>1
    <3>3. i # 1 => i - 1 \in 1..n /\ ~(i <= i - 1) /\ i - 1 # 0
      BY <3>2
    <3>4. PICK before : before = IF i = 1 THEN <<>> ELSE f[i - 1]
      OBVIOUS
    <3>5. before \in Seq(L) /\ scan[i - 1] = [ upper |-> Upper(i - 1), text |-> before ]
      <4>1. CASE i = 1
        <5>1. i - 1 = 0 /\ Upper(i - 1) = upper
          BY <4>1
        <5>2. before = <<>> /\ <<>> \in Seq(L)
          BY <3>4, <4>1
        <5> QED
          BY <1>7, <5>1, <5>2
      <4>2. CASE i # 1
        <5>1. i - 1 \notin T
          BY <3>1, <3>3, <4>2
        <5> QED
          BY <3>3, <3>4, <4>2, <5>1
      <4> QED
        BY <4>1, <4>2
    <3>6. f[i] = IF i = 1 THEN pieces[i] ELSE before \o pieces[i]
      BY <2>1, <3>2, <3>4 DEF Flattens
    <3>7. scan[i] = Scanned(scan[i - 1], ident, i)
      BY <1>3, <3>2 DEF Scans
    <3>8. Letter(ident, i, case) \in L /\ Letter(ident, i, case) = << ident[i], Upper(i - 1) >>
      <4>1. Letter(ident, i, case) \in L
        BY <3>2
      <4>2. CASE i = 1
        <5>1. i - 1 = 0
          BY <4>2
        <5> QED
          BY <1>2, <4>1, <4>2, <5>1, Zenon DEF Letter
      <4>3. CASE i # 1
        <5>1. i - 1 # 0
          BY <3>3, <4>3
        <5> QED
          BY <4>1, <4>3, <5>1, Zenon DEF Letter
      <4> QED
        BY <4>2, <4>3
    <3>9. CASE ident[i] = Underscore
      <4>1. pieces[i] = <<>>
        BY <1>1, <1>4, <3>2, <3>9 DEF Letters
      <4>2. f[i] = before
        BY <3>4, <3>5, <3>6, <4>1
      <4>3. scan[i] = [ scan[i - 1] EXCEPT !.upper = TRUE ]
        BY <3>7, <3>9 DEF Scanned
      <4>4. scan[i] = [ upper |-> TRUE, text |-> before ]
        <5>1. PICK up : scan[i - 1] = [ upper |-> up, text |-> before ]
          BY <3>5
        <5>2. PICK old, now, new : old = scan[i - 1] /\ now = TRUE /\ new = scan[i]
          OBVIOUS
        <5>3. DOMAIN old = { "upper", "text" } /\ old.text = before
          BY ONLY <5>1, <5>2
        <5>4. new = [ old EXCEPT !.upper = now ]
          BY ONLY <4>3, <5>2
        <5>5. new = [ field \in { "upper", "text" } |-> IF field = "upper" THEN now ELSE old[field] ]
          BY ONLY <5>3, <5>4
        <5>6. new.upper = now /\ new.text = before
          BY ONLY <5>3, <5>5
        <5>7. new = [ upper |-> now, text |-> before ]
          BY ONLY <5>5, <5>6
        <5> QED
          BY ONLY <5>2, <5>7
      <4>5. Upper(i) = TRUE
        BY <3>2, <3>9
      <4> QED
        BY <3>2, <3>5, <4>2, <4>4, <4>5
    <3>10. CASE ident[i] # Underscore
      <4>1. PICK letter \in L : letter = Letter(ident, i, case)
        BY <3>8
      <4>2. pieces[i] = << letter >>
        BY <1>1, <1>4, <3>2, <3>10, <4>1 DEF Letters
      <4>3. f[i] = Append(before, letter) /\ f[i] \in Seq(L)
        <5>1. before \o << letter >> = Append(before, letter) /\ Append(before, letter) \in Seq(L)
          <6> HIDE DEF L
          <6> QED
            BY <3>5, <4>1
        <5>2. CASE i = 1
          <6>1. Append(<<>>, letter) = << letter >>
            OBVIOUS
          <6> QED
            BY <3>4, <3>6, <4>2, <5>1, <5>2, <6>1
        <5>3. CASE i # 1
          BY <3>6, <4>2, <5>1, <5>3
        <5> QED
          BY <5>2, <5>3
      <4>4. scan[i] = [ upper |-> FALSE, text |-> Append(before, << ident[i], Upper(i - 1) >>) ]
        <5>1. scan[i - 1].text = before /\ scan[i - 1].upper = Upper(i - 1)
          BY <3>5
        <5> QED
          BY <3>7, <3>10, <5>1 DEF Scanned
      <4>5. Upper(i) = FALSE
        BY <3>2, <3>10
      <4> QED
        BY <3>2, <3>8, <4>1, <4>3, <4>4, <4>5
    <3> QED
      BY <3>9, <3>10
  <2>3. scan[n].text = f[n]
    <3>1. n \in 1..n
      BY <1>9
    <3>2. scan[n] = [ upper |-> Upper(n), text |-> f[n] ]
      BY <2>2, <3>1
    <3> QED
      BY <3>2
  <2> QED
    BY <1>3, <1>5, <2>1, <2>3
<1> QED
  BY <1>8, <1>9

--------------------------------------------------------------------------------
(* What a process writes.                                                       *)

\* The names between "X(" and the next ")", of a text in which none is left open.
LEMMA MacrosTyped ==
  ASSUME NEW S, NEW text \in Seq(S), IsClosed(text)
  PROVE  XMacros(text) \in Seq(Seq(S))
<1>1. PICK n \in Nat : n = Len(text)
  OBVIOUS
<1>2. ASSUME NEW i \in 1..n, text[i] = Opening PROVE XMacro(text, i) \in Seq(S)
  <2>1. PICK places : places = Closings(text, i)
    OBVIOUS
  <2>2. places # {} /\ places \subseteq i + 1..n
    BY <1>1, <1>2, <2>1 DEF IsClosed, Openings, Closings
  <2>3. \E j \in places : \A k \in places : j <= k
    <3>1. places \subseteq Nat
      BY <2>2
    <3> QED
      BY <2>2, <3>1, LeastElement
  <2>4. PICK j : j = Nearest(places)
    OBVIOUS
  <2>5. j \in places
    BY <2>3, <2>4 DEF Nearest
  <2>6. j \in i + 1..n
    BY <2>2, <2>5
  <2>7. PICK to \in Nat : to = j - 1 /\ i <= to /\ to <= n /\ i \in Nat
    BY <2>6
  <2>8. SubSeq(text, i + 1, to) \in Seq(S)
    BY <1>1, <2>7, Slicing
  <2> QED
    BY <2>1, <2>4, <2>7, <2>8 DEF XMacro
<1>3. PICK pieces : pieces = [ i \in 1..n |-> IF text[i] = Opening THEN << XMacro(text, i) >> ELSE <<>> ]
  OBVIOUS
<1>4. pieces \in Seq(Seq(Seq(S)))
  <2>1. ASSUME NEW i \in 1..n PROVE pieces[i] \in Seq(Seq(S))
    <3>1. CASE text[i] = Opening
      <4>1. PICK macro \in Seq(S) : macro = XMacro(text, i)
        BY <1>2, <3>1
      <4>2. pieces[i] = << macro >>
        BY <1>3, <3>1, <4>1
      <4> QED
        BY <4>2
    <3>2. CASE text[i] # Opening
      <4>1. pieces[i] = <<>>
        BY <1>3, <3>2
      <4> QED
        BY <4>1
    <3> QED
      BY <3>1, <3>2
  <2>2. pieces \in [ 1..n -> Seq(Seq(S)) ]
    BY <1>3, <2>1
  <2> QED
    BY <2>2
<1>5. XMacros(text) = Seqs!FlattenSeq(pieces)
  BY <1>1, <1>3, SameFlatten DEF XMacros
<1> QED
  BY <1>4, <1>5, FlattenTyped

LEMMA LinesTyped ==
  ASSUME Typed, NEW p \in Process, IsClosed(job[p].input)
  PROVE  /\ Lines(p) \in Seq({ Lines(p)[n] : n \in 1..Len(Lines(p)) })
         /\ Len(Lines(p)) = Len(XMacros(job[p].input))
         /\ \A n \in 1..Len(Lines(p)) : Lines(p)[n] = Varied(p, XMacros(job[p].input)[n])
<1>1. PICK text, S : text = job[p].input /\ S = Range(text)
  OBVIOUS
<1>2. text \in Seq(S)
  BY <1>1, JobsAssumption DEF Typed
<1>3. PICK macros \in Seq(Seq(S)) : macros = XMacros(text)
  BY <1>1, <1>2, MacrosTyped
<1>4. PICK m \in Nat : m = Len(macros)
  OBVIOUS
<1>5. PICK lines : lines = Lines(p)
  OBVIOUS
<1>6. lines = [ n \in 1..m |-> << Opening, InCase(macros[n], job[p].case), Closing >> ]
  BY <1>1, <1>3, <1>4, <1>5 DEF Lines
<1>7. Len(lines) = m
  BY <1>6
<1>8. lines \in Seq({ lines[n] : n \in 1..m })
  <2>1. lines \in [ 1..m -> { lines[n] : n \in 1..m } ]
    BY <1>6
  <2> QED
    BY <2>1
<1>9. ASSUME NEW n \in 1..m PROVE lines[n] = Varied(p, macros[n])
  <2>1. PICK ident \in Seq(S) : ident = macros[n]
    BY <1>4
  <2>2. Camel(ident, job[p].case = "uppercamel") = InCase(ident, job[p].case)
    BY CamelIs
  <2> QED
    BY <1>6, <2>1, <2>2, Zenon DEF Varied
<1> QED
  BY <1>1, <1>3, <1>4, <1>5, <1>7, <1>8, <1>9

LEMMA OneMoreLine ==
  ASSUME NEW S, NEW lines \in Seq(S), NEW n \in Nat, n < Len(lines)
  PROVE  Append(SubSeq(lines, 1, n), lines[n + 1]) = SubSeq(lines, 1, n + 1)
<1>1. PICK m \in Nat : m = Len(lines)
  OBVIOUS
<1>2. n \in 0..m /\ n + 1 \in 0..m /\ n + 1 \in 1..m /\ n < m
  BY <1>1
<1>3. PICK short, long : short = SubSeq(lines, 1, n) /\ long = SubSeq(lines, 1, n + 1)
  OBVIOUS
<1>4. short \in Seq(S) /\ Len(short) = n /\ long \in Seq(S) /\ Len(long) = n + 1
  BY <1>1, <1>2, <1>3, FirstNames
<1>5. \A i \in 1..n : short[i] = lines[i]
  <2>1. \A i \in 1..n - 1 + 1 : short[i] = lines[1 + i - 1]
    <3>1. \A i \in 1..n : lines[i] \in S
      BY <1>1, <1>2
    <3> QED
      BY <1>3, <3>1, SubSeqProperties
  <2> QED
    BY <2>1
<1>6. \A i \in 1..n + 1 : long[i] = lines[i]
  <2>1. PICK k \in Nat : k = n + 1
    OBVIOUS
  <2>2. \A i \in 1..k - 1 + 1 : long[i] = lines[1 + i - 1]
    <3>1. \A i \in 1..k : lines[i] \in S
      BY <1>1, <1>2, <2>1
    <3> QED
      BY <1>3, <2>1, <3>1, SubSeqProperties
  <2> QED
    BY <2>1, <2>2
<1>7. PICK line \in S : line = lines[n + 1]
  BY <1>1, <1>2
<1>8. PICK more : more = Append(short, line)
  OBVIOUS
<1>9. more \in Seq(S) /\ Len(more) = n + 1 /\ (\A i \in 1..n : more[i] = short[i]) /\ more[n + 1] = line
  BY <1>4, <1>7, <1>8, PushOne
<1>10. \A i \in 1..n + 1 : more[i] = long[i]
  BY <1>5, <1>6, <1>7, <1>9
<1>11. more = long
  BY <1>4, <1>9, <1>10, SeqEqual
<1> QED
  BY <1>3, <1>7, <1>8, <1>11

--------------------------------------------------------------------------------
(* What is on the disk for a process.                                           *)

\* Before fopen no process touches an output, its own or that of another one.
LEMMA NoFileYet ==
  ASSUME VaryCaseInv, NEW p \in Process, NEW q \in Process,
         Slurp(q) \/ CheckDirectory(q) \/ Descend(q) \/ Rise(q) \/ Risen(q)
           \/ ParseXMacros(q) \/ Refused(q)
  PROVE  /\ Output(p) \in DOMAIN disk' <=> Output(p) \in DOMAIN disk
         /\ Output(p) \in DOMAIN disk => disk'[Output(p)] = disk[Output(p)]
<1>1. CASE UNCHANGED disk
  BY <1>1
<1>2. CASE Rise(q)
  <2>1. PICK k \in 1..Len(Output(q)) - 1 : k = level[q] + 1
    <3>1. PICK m \in Nat \ { 0 } : m = Len(Output(q)) /\ Len(Dir(q)) = m - 1
      BY Before
    <3>2. PICK l \in Nat : l = level[q] /\ l < m - 1
      BY <1>2, <3>1, Before DEF Rise
    <3> QED
      BY <3>1, <3>2
  <2>2. Output(p) # Prefix(q, k)
    <3>1. Typed /\ Len(Output(q)) \in Nat
      BY Before
    <3>2. k \in 0..Len(Output(q)) /\ k # Len(Output(q))
      BY <3>1
    <3> QED
      BY <3>1, <3>2, OutputsApart
  <2>3. \/ UNCHANGED disk
        \/ disk' = [ path \in DOMAIN disk \cup { Prefix(q, k) } |->
                       IF path = Prefix(q, k) THEN Directory ELSE disk[path] ]
    BY <1>2, <2>1 DEF Rise
  <2>4. PICK here : here = Output(p)
    OBVIOUS
  <2> QED
    BY <1>1, <2>2, <2>3, <2>4
<1>3. CASE Slurp(q) \/ CheckDirectory(q) \/ Descend(q) \/ Risen(q) \/ ParseXMacros(q) \/ Refused(q)
  BY <1>1, <1>3 DEF Slurp, CheckDirectory, Descend, Risen, ParseXMacros, Refused
<1> QED
  BY <1>2, <1>3

\* And after it none touches that of another one.
LEMMA OthersKeepMyFile ==
  ASSUME VaryCaseInv, NEW p \in Process, NEW q \in Process, p # q,
         Slurp(q) \/ CheckDirectory(q) \/ Descend(q) \/ Rise(q) \/ Risen(q)
           \/ ParseXMacros(q) \/ Open(q) \/ Write(q) \/ Close(q) \/ Refused(q)
  PROVE  /\ Output(p) \in DOMAIN disk' <=> Output(p) \in DOMAIN disk
         /\ Output(p) \in DOMAIN disk => disk'[Output(p)] = disk[Output(p)]
<1>1. CASE UNCHANGED disk
  BY <1>1
<1>2. CASE \E text : disk' = WithFile(q, text)
  <2>1. Output(p) # Output(q)
    <3>1. Typed
      BY DEF VaryCaseInv
    <3>2. PICK k \in 0..Len(Output(q)) : k = Len(Output(q))
      BY <3>1, Outputs
    <3>3. Prefix(q, k) = Output(q)
      BY <3>1, <3>2, Outputs
    <3> QED
      BY <3>1, <3>3, OutputsApart
  <2>2. PICK here : here = Output(p)
    OBVIOUS
  <2> QED
    BY <1>2, <2>1, <2>2 DEF WithFile
<1>3. CASE Open(q) \/ Write(q) \/ Close(q)
  BY <1>1, <1>2, <1>3 DEF Open, Write, Close, Flushed
<1> QED
  BY <1>3, NoFileYet

LEMMA KeptSoFar ==
  ASSUME UNCHANGED << start, job >>, NEW p,
         Output(p) \in DOMAIN disk' <=> Output(p) \in DOMAIN disk,
         Output(p) \in DOMAIN disk => disk'[Output(p)] = disk[Output(p)]
  PROVE  OutputIsKept(p) => OutputIsKept(p)'
BY SamePaths DEF OutputIsKept

LEMMA SameLines ==
  ASSUME UNCHANGED << start, job >>
  PROVE  \A p : Output(p)' = Output(p) /\ Lines(p)' = Lines(p) /\ UnknownCase(p)' = UnknownCase(p)
BY SamePaths DEF Lines, UnknownCase

LEMMA OthersWriteOn ==
  ASSUME VaryCaseInv, WritingInv, ParsedInv, NEW p \in Process, NEW q \in Process, p # q,
         Slurp(q) \/ CheckDirectory(q) \/ Descend(q) \/ Rise(q) \/ Risen(q)
           \/ ParseXMacros(q) \/ Open(q) \/ Write(q) \/ Close(q) \/ Refused(q)
  PROVE  WritesOn(p)'
<1>1. UNCHANGED << start, job >> /\ at'[p] = at[p] /\ content'[p] = content[p] /\ lost'[p] = lost[p]
  BY DEF ParsedInv, WritingInv, Slurp, CheckDirectory, Descend, Rise, Risen, ParseXMacros, Open, Write, Close,
     Refused, GoTo, local, Flushed
<1>2. Output(p)' = Output(p) /\ Lines(p)' = Lines(p) /\ UnknownCase(p)' = UnknownCase(p)
  BY <1>1, SameLines
<1>3. /\ Output(p) \in DOMAIN disk' <=> Output(p) \in DOMAIN disk
      /\ Output(p) \in DOMAIN disk => disk'[Output(p)] = disk[Output(p)]
  BY OthersKeepMyFile
<1>4. OutputIsKept(p) => OutputIsKept(p)'
  BY <1>1, <1>3, KeptSoFar
<1>5. WritesOn(p)
  BY DEF WritingInv
<1>6. ~OutputIsKept(p) => disk'[Output(p)] = disk[Output(p)]
  <2>1. Kept(start, disk)
    BY DEF VaryCaseInv
  <2>2. ~OutputIsKept(p) => Output(p) \in DOMAIN disk
    BY <2>1 DEF OutputIsKept, Kept
  <2> QED
    BY <1>3, <2>2
<1>7. at[p] \notin { "write", "succeeded", "failed" } => OutputIsKept(p)'
  BY <1>4, <1>5 DEF WritesOn
<1>8. at[p] = "succeeded" =>
        /\ Output(p) \in DOMAIN disk' /\ disk'[Output(p)] # Directory
        /\ ~lost[p] => disk'[Output(p)] = File(Lines(p))
        /\ ~UnknownCase(p)
  BY <1>3, <1>5 DEF WritesOn
<1>9. at[p] = "failed" =>
        \/ OutputIsKept(p)'
        \/ UnknownCase(p) /\ (lost[p] \/ disk'[Output(p)] = File(<< << Opening >> >>))
  BY <1>4, <1>5, <1>6 DEF WritesOn
<1>10. at[p] = "write" => \E n \in 0..Len(Lines(p)) : content[p] = SubSeq(Lines(p), 1, n)
  BY <1>5 DEF WritesOn
<1> QED
  BY <1>1, <1>2, <1>7, <1>8, <1>9, <1>10 DEF WritesOn

\* Before fopen the output is what the build found.
LEMMA GoOn ==
  ASSUME VaryCaseInv, WritingInv, ParsedInv, NEW p \in Process,
         Slurp(p) \/ CheckDirectory(p) \/ Descend(p) \/ Rise(p) \/ Risen(p)
           \/ ParseXMacros(p) \/ Refused(p)
  PROVE  WritesOn(p)'
<1>1. UNCHANGED << start, job >>
  BY DEF Slurp, CheckDirectory, Descend, Rise, Risen, ParseXMacros, Refused, local
<1>2. at[p] \in { "slurp", "check", "descend", "rise", "parse", "open" }
  BY DEF Slurp, CheckDirectory, Descend, Rise, Risen, ParseXMacros, Refused
<1>3. at'[p] \in { "check", "descend", "rise", "parse", "open", "failed" }
  BY Before DEF Slurp, CheckDirectory, Descend, Rise, Risen, ParseXMacros, Refused, GoTo
<1>4. OutputIsKept(p)
  BY <1>2 DEF WritingInv, WritesOn
<1>5. /\ Output(p) \in DOMAIN disk' <=> Output(p) \in DOMAIN disk
      /\ Output(p) \in DOMAIN disk => disk'[Output(p)] = disk[Output(p)]
  BY NoFileYet
<1>6. OutputIsKept(p)'
  BY <1>1, <1>4, <1>5, KeptSoFar
<1> QED
  BY <1>3, <1>6 DEF WritesOn

LEMMA OpenedWritesOn ==
  ASSUME VaryCaseInv, WritingInv, ParsedInv, NEW p \in Process, Open(p)
  PROVE  WritesOn(p)'
<1>1. at[p] = "open" /\ UNCHANGED << start, content, job >> /\ Typed
  BY Before DEF Open, local
<1>2. IsClosed(job[p].input) /\ content[p] = <<>> /\ OutputIsKept(p)
  BY <1>1 DEF ParsedInv, WritingInv, WritesOn
<1>3. CASE CanOpen(p)
  <2>1. at'[p] = "write"
    BY <1>3, Before DEF Open, GoTo
  <2>2. PICK lines, S : lines = Lines(p) /\ S = { lines[n] : n \in 1..Len(lines) }
    OBVIOUS
  <2>3. lines \in Seq(S)
    BY <1>1, <1>2, <2>2, LinesTyped
  <2>4. 0 \in 0..Len(lines) /\ SubSeq(lines, 1, 0) = <<>>
    BY <2>3
  <2>5. \E n \in 0..Len(lines) : content'[p] = SubSeq(lines, 1, n)
    BY <1>1, <1>2, <2>4
  <2> QED
    BY <1>1, <2>1, <2>2, <2>5, SameLines DEF WritesOn
<1>4. CASE ~CanOpen(p)
  <2>1. at'[p] = "failed" /\ UNCHANGED disk
    BY <1>4, Before DEF Open, GoTo
  <2>2. OutputIsKept(p)'
    BY <1>1, <1>2, <2>1, KeptSoFar
  <2> QED
    BY <2>1, <2>2 DEF WritesOn
<1> QED
  BY <1>3, <1>4

\* A case that is not known leaves what is written before it is looked up.
LEMMA UnknownWritesOn ==
  ASSUME VaryCaseInv, WritingInv, ParsedInv, NEW p \in Process, Write(p), job[p].case \notin KnownCases
  PROVE  WritesOn(p)'
<1>1. at'[p] = "failed" /\ UNCHANGED << start, job >>
  BY Before DEF Write, GoTo
<1>2. content[p] = <<>> /\ UnknownCase(p)
  BY WritesSomething DEF UnknownCase
<1>3. PICK text : text = << << Opening >> >>
  OBVIOUS
<1>4. content'[p] = text
  BY <1>2, <1>3 DEF Write, ParsedInv
<1>5. PICK n \in 0..Len(text) : disk' = WithFile(p, SubSeq(text, 1, n)) /\ lost'[p] = (n < Len(text))
  BY <1>4 DEF Write, Flushed, WritingInv
<1>6. text \in Seq({ << Opening >> }) /\ Len(text) = 1
  BY <1>3
<1>7. disk'[Output(p)] = File(SubSeq(text, 1, n))
  BY <1>5 DEF WithFile
<1>8. ~lost'[p] => SubSeq(text, 1, n) = text
  <2> SUFFICES ASSUME ~lost'[p] PROVE SubSeq(text, 1, n) = text
    OBVIOUS
  <2>1. ~(n < Len(text))
    BY <1>5
  <2>2. n = Len(text) /\ Len(text) \in 0..Len(text)
    BY <1>6, <2>1
  <2> QED
    BY <1>6, <2>2, FirstNames
<1> QED
  BY <1>1, <1>2, <1>3, <1>7, <1>8, SameLines DEF WritesOn

LEMMA WroteWritesOn ==
  ASSUME VaryCaseInv, WritingInv, ParsedInv, NEW p \in Process, Write(p), job[p].case \in KnownCases
  PROVE  WritesOn(p)'
<1>1. /\ at[p] = "write" /\ UNCHANGED << start, job, at >> /\ Typed
      /\ Len(content[p]) + 1 <= Len(xmacros[p])
  BY Before DEF Write
<1>2. IsClosed(job[p].input) /\ xmacros[p] = XMacros(job[p].input)
  BY <1>1 DEF ParsedInv
<1>3. PICK lines, S : lines = Lines(p) /\ S = { lines[n] : n \in 1..Len(lines) }
  OBVIOUS
<1>4. /\ lines \in Seq(S) /\ Len(lines) = Len(xmacros[p])
      /\ \A n \in 1..Len(lines) : lines[n] = Varied(p, xmacros[p][n])
  BY <1>1, <1>2, <1>3, LinesTyped
<1>5. PICK n \in 0..Len(lines) : content[p] = SubSeq(lines, 1, n)
  BY <1>1, <1>3 DEF WritingInv, WritesOn
<1>6. PICK m \in Nat : m = Len(lines)
  BY <1>4
<1>7. Len(content[p]) = n /\ n \in Nat
  BY <1>4, <1>5, <1>6, FirstNames
<1>8. n < m /\ n + 1 \in 0..m /\ n + 1 \in 1..m
  BY <1>1, <1>4, <1>6, <1>7
<1>9. content'[p] = Append(content[p], Varied(p, xmacros[p][n + 1]))
  BY <1>7 DEF Write, ParsedInv
<1>10. content'[p] = SubSeq(lines, 1, n + 1)
  BY <1>4, <1>5, <1>6, <1>7, <1>8, <1>9, OneMoreLine
<1>11. \E k \in 0..m : content'[p] = SubSeq(lines, 1, k)
  BY <1>8, <1>10
<1> QED
  BY <1>1, <1>3, <1>6, <1>11, SameLines DEF WritesOn

LEMMA ClosedWritesOn ==
  ASSUME VaryCaseInv, WritingInv, ParsedInv, NEW p \in Process, Close(p)
  PROVE  WritesOn(p)'
<1>1. /\ at[p] = "write" /\ UNCHANGED << start, job, content >> /\ Typed
      /\ Len(content[p]) = Len(xmacros[p]) /\ at'[p] = "succeeded"
  BY Before DEF Close, GoTo
<1>2. IsClosed(job[p].input) /\ xmacros[p] = XMacros(job[p].input)
  BY <1>1 DEF ParsedInv
<1>3. PICK lines, S : lines = Lines(p) /\ S = { lines[n] : n \in 1..Len(lines) }
  OBVIOUS
<1>4. lines \in Seq(S) /\ Len(lines) = Len(xmacros[p])
  BY <1>1, <1>2, <1>3, LinesTyped
<1>5. PICK m \in Nat : m = Len(lines)
  BY <1>4
<1>6. PICK n \in 0..m : content[p] = SubSeq(lines, 1, n)
  BY <1>1, <1>3, <1>5 DEF WritingInv, WritesOn
<1>7. Len(content[p]) = n
  BY <1>4, <1>5, <1>6, FirstNames
<1>8. content[p] = lines
  <2>1. n = m
    BY <1>1, <1>4, <1>5, <1>7
  <2>2. m \in 0..m
    BY <1>5
  <2> QED
    BY <1>4, <1>5, <1>6, <2>1, <2>2, FirstNames
<1>9. PICK k \in 0..m : disk' = WithFile(p, SubSeq(lines, 1, k)) /\ lost'[p] = (k < m)
  BY <1>1, <1>5, <1>8 DEF Close, Flushed, WritingInv
<1>10. Output(p) \in DOMAIN disk' /\ disk'[Output(p)] = File(SubSeq(lines, 1, k))
  BY <1>9 DEF WithFile
<1>11. ~lost'[p] => SubSeq(lines, 1, k) = lines
  <2> SUFFICES ASSUME ~lost'[p] PROVE SubSeq(lines, 1, k) = lines
    OBVIOUS
  <2>1. ~(k < m)
    BY <1>9
  <2>2. k = m /\ m \in 0..m
    BY <1>5, <2>1
  <2> QED
    BY <1>4, <1>5, <2>2, FirstNames
<1>12. ~UnknownCase(p)
  <2>1. CASE content[p] = <<>>
    <3>1. PICK text, T : text = job[p].input /\ T = Range(text)
      OBVIOUS
    <3>2. text \in Seq(T)
      BY <1>1, <3>1, JobsAssumption DEF Typed
    <3>3. PICK macros \in Seq(Seq(T)) : macros = XMacros(text)
      BY <1>2, <3>1, <3>2, MacrosTyped
    <3>4. Len(macros) = 0
      BY <1>1, <1>2, <2>1, <3>1, <3>3
    <3>5. macros = <<>>
      BY <3>4
    <3> QED
      BY <3>1, <3>3, <3>5 DEF UnknownCase
  <2>2. CASE content[p] # <<>>
    BY <1>1, <2>2 DEF ParsedInv, UnknownCase
  <2> QED
    BY <2>1, <2>2
<1>13. disk'[Output(p)] # Directory
  BY <1>10, FilesAreNoDirectories
<1> QED
  BY <1>1, <1>3, <1>10, <1>11, <1>12, <1>13, SameLines DEF WritesOn

\* What each process has written and has still to write.
THEOREM WritingInvariant == Spec => []WritingInv
<1>1. Init => WritingInv
  <2> SUFFICES ASSUME Init PROVE WritingInv
    OBVIOUS
  <2>1. DOMAIN lost = Process
    BY DEF Init
  <2>2. ASSUME NEW p \in Process PROVE WritesOn(p)
    <3>1. at[p] = "slurp" /\ start = disk
      BY DEF Init
    <3> QED
      BY <3>1 DEF WritesOn, OutputIsKept
  <2> QED
    BY <2>1, <2>2 DEF WritingInv
<1>2. VaryCaseInv /\ ParsedInv /\ WritingInv /\ [Next]_vars => WritingInv'
  <2> SUFFICES ASSUME VaryCaseInv, ParsedInv, WritingInv, [Next]_vars PROVE WritingInv'
    OBVIOUS
  <2>1. CASE Next
    <3>1. PICK q \in Process :
             Slurp(q) \/ CheckDirectory(q) \/ Descend(q) \/ Rise(q) \/ Risen(q)
               \/ ParseXMacros(q) \/ Open(q) \/ Write(q) \/ Close(q) \/ Refused(q)
      BY <2>1 DEF Next
    <3>2. DOMAIN lost' = Process
      BY <3>1 DEF WritingInv, Slurp, CheckDirectory, Descend, Rise, Risen, ParseXMacros, Open, Write, Close,
         Refused, local, Flushed
    <3>3. ASSUME NEW p \in Process PROVE WritesOn(p)'
      BY <3>1, OthersWriteOn, GoOn, OpenedWritesOn, UnknownWritesOn, WroteWritesOn, ClosedWritesOn
    <3> QED
      BY <3>2, <3>3 DEF WritingInv
  <2>2. CASE UNCHANGED vars
    <3>1. UNCHANGED << disk, start, job, at, content, lost >>
      BY <2>2 DEF vars
    <3>2. ASSUME NEW p \in Process PROVE WritesOn(p)'
      <4>1. OutputIsKept(p)' = OutputIsKept(p)
        BY <3>1, SamePaths DEF OutputIsKept
      <4> QED
        BY <3>1, <4>1, SameLines DEF WritingInv, WritesOn
    <3> QED
      BY <3>1, <3>2 DEF WritingInv
  <2> QED
    BY <2>1, <2>2
<1> QED
  BY <1>1, <1>2, VaryCaseInvariant, ParsedInvariant, PTL DEF Spec

\* A varycase that succeeds has written each name of its input, of whatever length, in the case
\* it was asked for, and no other process has touched its file, however many run; one that fails
\* has left the file alone, or in it the beginning that an unknown case leaves.
THEOREM WhatIsLeftBehind == Spec => []OutputIsWholeOrKept
<1>1. WritingInv => OutputIsWholeOrKept
  BY DEF WritingInv, WritesOn, OutputIsWholeOrKept
<1> QED
  BY <1>1, WritingInvariant, PTL

--------------------------------------------------------------------------------
(* Where the directories come from.                                             *)

\* What leads to something on the disk is on the disk.
LEMMA Above ==
  ASSUME Typed, Rooted(disk), NEW p \in Process, NEW k \in 1..Len(Output(p)),
         Prefix(p, k) \in DOMAIN disk
  PROVE  \A j \in 1..k - 1 : Prefix(p, j) \in DOMAIN disk /\ disk[Prefix(p, j)] = Directory
<1>1. PICK n \in Nat \ { 0 } : n = Len(Output(p)) /\ k \in 0..n
  BY Outputs
<1>2. SUFFICES ASSUME NEW j \in 1..k - 1
               PROVE  Prefix(p, j) \in DOMAIN disk /\ disk[Prefix(p, j)] = Directory
  OBVIOUS
<1>3. PICK here : here = Prefix(p, k)
  OBVIOUS
<1>4. Len(here) = k
  BY <1>1, <1>3, Outputs
<1>5. SubSeq(here, 1, j) \in DOMAIN disk /\ disk[SubSeq(here, 1, j)] = Directory
  BY <1>3, <1>4 DEF Rooted
<1>6. SubSeq(here, 1, j) = Prefix(p, j)
  BY <1>1, <1>3, ShorterPrefix
<1> QED
  BY <1>5, <1>6

\* A directory in a directory.
LEMMA DirectoryRooted ==
  ASSUME Typed, Rooted(disk), NEW p \in Process, NEW k \in 1..Len(Output(p)) - 1,
         k > 1 => IsDir(p, k - 1),
         NEW new, new = [ path \in DOMAIN disk \cup { Prefix(p, k) } |->
                            IF path = Prefix(p, k) THEN Directory ELSE disk[path] ]
  PROVE  Rooted(new)
<1>1. PICK n \in Nat \ { 0 } : n = Len(Output(p)) /\ k \in 1..n /\ k \in 0..n
  BY Outputs
<1>2. PICK here : here = Prefix(p, k)
  OBVIOUS
<1>3. /\ DOMAIN new = DOMAIN disk \cup { here } /\ new[here] = Directory
      /\ \A path \in DOMAIN disk : path # here => new[path] = disk[path]
  BY <1>2
<1>4. Len(here) = k
  BY <1>1, <1>2, Outputs
<1>5. ASSUME NEW j \in 1..k - 1
      PROVE  SubSeq(here, 1, j) \in DOMAIN disk /\ disk[SubSeq(here, 1, j)] = Directory
  <2>1. PICK up \in 1..n : up = k - 1 /\ j \in 1..up /\ k > 1
    BY <1>1
  <2>2. Prefix(p, up) \in DOMAIN disk /\ disk[Prefix(p, up)] = Directory
    BY <2>1 DEF IsDir, Exists
  <2>3. \A i \in 1..up - 1 : Prefix(p, i) \in DOMAIN disk /\ disk[Prefix(p, i)] = Directory
    BY <1>1, <2>1, <2>2, Above
  <2>4. Prefix(p, j) \in DOMAIN disk /\ disk[Prefix(p, j)] = Directory
    BY <2>1, <2>2, <2>3
  <2>5. j \in 0..k
    BY <1>1
  <2>6. SubSeq(here, 1, j) = Prefix(p, j)
    BY <1>1, <1>2, <2>5, ShorterPrefix
  <2> QED
    BY <2>4, <2>6
<1>6. ASSUME NEW path \in DOMAIN new, NEW j \in 1..Len(path) - 1
      PROVE  SubSeq(path, 1, j) \in DOMAIN disk /\ disk[SubSeq(path, 1, j)] = Directory
  <2>1. CASE path = here
    BY <1>4, <1>5, <2>1
  <2>2. CASE path \in DOMAIN disk
    BY <2>2 DEF Rooted
  <2> QED
    BY <1>3, <2>1, <2>2
<1> QED
  BY <1>3, <1>6 DEF Rooted

\* A file in a directory, which is a file if it was there.
LEMMA FileRooted ==
  ASSUME Typed, Rooted(disk), NEW p \in Process, NEW text,
         Output(p) \in DOMAIN disk => disk[Output(p)] # Directory,
         Len(Output(p)) > 1 => IsDir(p, Len(Output(p)) - 1)
  PROVE  Rooted(WithFile(p, text))
<1>1. PICK n \in Nat \ { 0 } : n = Len(Output(p)) /\ Prefix(p, n) = Output(p) /\ n \in 0..n
  BY Outputs
<1>2. PICK here, new : here = Output(p) /\ new = WithFile(p, text)
  OBVIOUS
<1>3. /\ DOMAIN new = DOMAIN disk \cup { here }
      /\ \A path \in DOMAIN disk : path # here => new[path] = disk[path]
      /\ here \in DOMAIN disk => disk[here] # Directory
  BY <1>2 DEF WithFile
<1>4. ASSUME NEW j \in 1..n - 1
      PROVE  SubSeq(here, 1, j) \in DOMAIN disk /\ disk[SubSeq(here, 1, j)] = Directory
  <2>1. PICK up \in 1..n : up = n - 1 /\ j \in 1..up /\ n > 1
    BY <1>1
  <2>2. Prefix(p, up) \in DOMAIN disk /\ disk[Prefix(p, up)] = Directory
    BY <1>1, <2>1 DEF IsDir, Exists
  <2>3. \A i \in 1..up - 1 : Prefix(p, i) \in DOMAIN disk /\ disk[Prefix(p, i)] = Directory
    BY <1>1, <2>1, <2>2, Above
  <2>4. Prefix(p, j) \in DOMAIN disk /\ disk[Prefix(p, j)] = Directory
    BY <2>1, <2>2, <2>3
  <2> QED
    BY <1>2, <2>4 DEF Prefix
<1>5. ASSUME NEW path \in DOMAIN new, NEW j \in 1..Len(path) - 1
      PROVE  SubSeq(path, 1, j) \in DOMAIN disk /\ disk[SubSeq(path, 1, j)] = Directory
  <2>1. CASE path = here
    BY <1>1, <1>2, <1>4, <2>1
  <2>2. CASE path \in DOMAIN disk
    BY <2>2 DEF Rooted
  <2> QED
    BY <1>3, <2>1, <2>2
<1>6. Rooted(new)
  BY <1>3, <1>5 DEF Rooted
<1> QED
  BY <1>2, <1>6

\* Every file and directory is in a directory, however many processes make them.
THEOREM RootedInvariant == Spec => []Rooted(disk)
<1>1. Init => Rooted(disk)
  BY DisksAssumption DEF Init
<1>2. VaryCaseInv /\ Rooted(disk) /\ [Next]_vars => Rooted(disk)'
  <2> SUFFICES ASSUME VaryCaseInv, Rooted(disk), [Next]_vars PROVE Rooted(disk')
    OBVIOUS
  <2>1. UNCHANGED disk => Rooted(disk')
    BY Zenon
  <2>2. ASSUME NEW p \in Process, Rise(p) PROVE Rooted(disk')
    <3>1. PICK m \in Nat \ { 0 } : m = Len(Output(p)) /\ Len(Dir(p)) = m - 1
      BY Before
    <3>2. PICK l \in Nat : l = level[p] /\ l < m - 1
      BY <2>2, <3>1, Before DEF Rise
    <3>3. PICK k \in 1..m - 1 : k = l + 1
      BY <3>2
    <3>4. CASE Mkdir(p, k) = "made"
      <4>1. disk' = [ path \in DOMAIN disk \cup { Prefix(p, k) } |->
                        IF path = Prefix(p, k) THEN Directory ELSE disk[path] ]
        BY <2>2, <3>2, <3>3, <3>4 DEF Rise
      <4>2. k > 1 => IsDir(p, k - 1)
        BY <3>4 DEF Mkdir
      <4> QED
        BY <3>1, <4>1, <4>2, Before, DirectoryRooted
    <3>5. CASE Mkdir(p, k) # "made"
      BY <2>1, <2>2, <3>2, <3>3, <3>5 DEF Rise
    <3> QED
      BY <3>4, <3>5
  <2>3. ASSUME NEW p \in Process, NEW text, disk' = WithFile(p, text),
               \/ CanOpen(p)
               \/ Output(p) \in DOMAIN disk /\ disk[Output(p)] # Directory
        PROVE  Rooted(disk')
    <3>1. PICK n \in Nat \ { 0 } : n = Len(Output(p))
      BY Before
    <3>2. Typed /\ Prefix(p, n) = Output(p)
      BY <3>1, Before, Outputs
    <3>3. CASE CanOpen(p)
      <4>1. Output(p) \in DOMAIN disk => disk[Output(p)] # Directory
        BY <3>1, <3>2, <3>3 DEF CanOpen, IsDir, Exists, IsPath
      <4> QED
        BY <2>3, <3>1, <3>2, <3>3, <4>1, FileRooted DEF CanOpen
    <3>4. CASE Output(p) \in DOMAIN disk /\ disk[Output(p)] # Directory
      <4>1. \A j \in 1..n - 1 : Prefix(p, j) \in DOMAIN disk /\ disk[Prefix(p, j)] = Directory
        BY <3>1, <3>2, <3>4, Above
      <4>2. n > 1 => IsDir(p, n - 1)
        <5> SUFFICES ASSUME n > 1 PROVE IsDir(p, n - 1)
          OBVIOUS
        <5>1. PICK j \in 1..n - 1 : j = n - 1 /\ j # 0
          OBVIOUS
        <5> QED
          BY <4>1, <5>1 DEF IsDir, Exists, IsPath
      <4> QED
        BY <2>3, <3>1, <3>2, <3>4, <4>2, FileRooted
    <3> QED
      BY <2>3, <3>3, <3>4
  <2>4. ASSUME NEW p \in Process, Open(p) PROVE Rooted(disk')
    BY <2>1, <2>3, <2>4 DEF Open
  <2>5. ASSUME NEW p \in Process, Write(p) \/ Close(p) PROVE Rooted(disk')
    <3>1. Output(p) \in DOMAIN disk /\ disk[Output(p)] # Directory
      BY <2>5, Before DEF Write, Close, OnItsWay
    <3>2. UNCHANGED disk \/ \E text : disk' = WithFile(p, text)
      BY <2>5 DEF Write, Close, Flushed
    <3> QED
      BY <2>1, <2>3, <3>1, <3>2
  <2>6. ASSUME NEW p \in Process,
               Slurp(p) \/ CheckDirectory(p) \/ Descend(p) \/ Risen(p) \/ ParseXMacros(p) \/ Refused(p)
        PROVE  Rooted(disk')
    BY <2>1, <2>6 DEF Slurp, CheckDirectory, Descend, Risen, ParseXMacros, Refused
  <2>7. CASE UNCHANGED vars
    BY <2>1, <2>7 DEF vars
  <2> QED
    BY <2>2, <2>4, <2>5, <2>6, <2>7 DEF Next
<1> QED
  BY <1>1, <1>2, VaryCaseInvariant, PTL DEF Spec

\* Whoever succeeds found its way free, but for a directory that another process made.
LEMMA WaysAreFree ==
  ASSUME VaryCaseInv, Rooted(disk), NEW p \in Process,
         Output(p) \in DOMAIN disk, disk[Output(p)] # Directory
  PROVE  ~IsInTheWay(p) /\ (FirstIsMissing(p) => AnotherMakesIt(p))
<1>1. PICK n \in Nat \ { 0 } : n = Len(Output(p)) /\ n \in 1..n /\ Prefix(p, n) = Output(p)
  BY Before, Outputs
<1>2. \A k \in 1..n - 1 : Prefix(p, k) \in DOMAIN disk /\ disk[Prefix(p, k)] = Directory
  BY <1>1, Before, Above
<1>3. Kept(start, disk) /\ Made /\ Typed
  BY Before
<1>4. ASSUME NEW k \in 1..n, Prefix(p, k) \in DOMAIN start
      PROVE  ~(start[Prefix(p, k)] = Directory <=> k = n)
  <2>1. disk[Prefix(p, k)] = Directory <=> start[Prefix(p, k)] = Directory
    BY <1>3, <1>4 DEF Kept
  <2>2. k # n => k \in 1..n - 1
    OBVIOUS
  <2> QED
    BY <1>1, <1>2, <2>1, <2>2
<1>5. ~IsInTheWay(p)
  BY <1>1, <1>4 DEF IsInTheWay
<1>6. ASSUME FirstIsMissing(p) PROVE AnotherMakesIt(p)
  <2>1. n > 1 /\ Prefix(p, 1) \notin DOMAIN start
    BY <1>1, <1>6 DEF FirstIsMissing
  <2>2. 1 \in 1..n - 1 /\ 1 \in 0..n
    BY <2>1
  <2>3. PICK here : here = Prefix(p, 1) /\ here \in DOMAIN disk \ DOMAIN start /\ disk[here] = Directory
    BY <1>2, <2>1, <2>2
  <2>4. PICK q \in Process : \E k \in 1..Len(Output(q)) - 1 :
             here = Prefix(q, k) /\ (IsAbsolute(q) \/ k > 1)
    BY <1>3, <2>3 DEF Made
  <2>5. PICK k \in 1..Len(Output(q)) - 1 : here = Prefix(q, k) /\ (IsAbsolute(q) \/ k > 1)
    BY <2>4
  <2>6. PICK m \in Nat \ { 0 } : m = Len(Output(q)) /\ k \in 0..m /\ k \in 1..m - 1
    BY Before
  <2>7. Len(here) = 1 /\ Len(here) = k
    BY <1>1, <1>3, <2>2, <2>3, <2>5, <2>6, Outputs
  <2>8. k = 1 /\ m > 1
    <3>1. k = 1
      BY ONLY <2>7
    <3> QED
      BY ONLY <2>6, <3>1
  <2>9. IsAbsolute(q) /\ Prefix(q, 1) = here
    BY <2>5, <2>8
  <2> QED
    BY <2>3, <2>6, <2>8, <2>9 DEF AnotherMakesIt
<1> QED
  BY <1>5, <1>6

\* However many varycase run at the same time and whatever they make, none fails because of
\* another one, and none succeeds in spite of a cause of its own.
THEOREM NoOneFailsForAnother == Spec => []FailsForItsCause
<1>1. VaryCaseInv /\ ParsedInv /\ WritingInv /\ Rooted(disk) => FailsForItsCause
  <2> SUFFICES ASSUME VaryCaseInv, ParsedInv, WritingInv, Rooted(disk), NEW p \in Process
               PROVE  /\ at[p] = "failed" => refused[p] \/ Hopeless(p) \/ FirstIsMissing(p)
                      /\ at[p] = "succeeded" =>
                            ~Hopeless(p) /\ (FirstIsMissing(p) => AnotherMakesIt(p))
    BY DEF FailsForItsCause
  <2>1. at[p] = "failed" => refused[p] \/ Hopeless(p) \/ FirstIsMissing(p)
    BY DEF VaryCaseInv
  <2>2. ASSUME at[p] = "succeeded"
        PROVE  ~Hopeless(p) /\ (FirstIsMissing(p) => AnotherMakesIt(p))
    <3>1. IsClosed(job[p].input)
      BY <2>2 DEF ParsedInv
    <3>2. Output(p) \in DOMAIN disk /\ disk[Output(p)] # Directory /\ ~UnknownCase(p)
      BY <2>2 DEF WritingInv, WritesOn
    <3> QED
      BY <3>1, <3>2, WaysAreFree DEF Hopeless
  <2> QED
    BY <2>1, <2>2
<1> QED
  BY <1>1, VaryCaseInvariant, ParsedInvariant, WritingInvariant, RootedInvariant, PTL
================================================================================
