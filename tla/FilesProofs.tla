---------------------------- MODULE FilesProofs ----------------------------
(***************************************************************************)
(* Theorems of Links, for any Models, paths, folders, contents, callers    *)
(* and bounds, and of Legacy, for any texts and any number of starts,      *)
(* faults and edits.                                                       *)
(***************************************************************************)
EXTENDS Links, Legacy, SequenceTheorems, FiniteSetTheorems, WellFoundedInduction, TLAPS

(***************************************************************************)
(* Links.                                                                  *)
(***************************************************************************)
Link == [mode : {"absent", "linked", "managed", "deleted"}, path : Paths \cup {Nothing},
         state : {"ok", "missing", "changing", "invalid"}, observed : Nat,
         current : Contents \cup {Nothing}]
Check == [pc : {"off", "stat", "read", "apply", "follow"}, by : {"none", "scheduled", "retry"},
          link : Link, stamp : Nat, found : {"none", "ok", "missing", "changing", "invalid", "new"}]
Call == [pc : {"idle", "staging", "staged", "committed", "ended"}, model : Linkables \cup {Nothing},
         path : Paths \cup {Nothing}, stamp : Nat]

\* On disk d version s was made at path p, and holds c.
MadeAt(d, s, p) == s \in DOMAIN d.made /\ d.made[s].path = p
Holds(d, s, c) == d.made[s].content = c

\* A row that follows a file names what was seen there, and shows it if it is ok.
RowTrue(d, row) == row.mode = "linked" =>
    /\ row.path \in Paths
    /\ row.state = "ok" => MadeAt(d, row.observed, row.path) /\ Holds(d, row.observed, row.current)

\* A check looks at the path its link had, and its verdict is of the version it read there.
CheckTrue(d, c) ==
    /\ c.pc \in {"stat", "read", "apply"} => c.link.mode = "linked" /\ RowTrue(d, c.link)
    /\ c.pc \in {"read", "apply"} /\ c.stamp # 0 => MadeAt(d, c.stamp, c.link.path)
    /\ c.pc = "stat" => c.stamp = 0
    /\ c.pc = "read" => c.stamp # 0
    /\ c.pc = "apply" =>
          /\ c.found # "none"
          /\ c.found \in {"ok", "new"} => c.stamp # 0
          /\ c.found = "ok" => Holds(d, c.stamp, c.link.current)

\* A command links the version it staged, and its path is where that version was made.
CallTrue(d, a) ==
    /\ a.pc \in {"staging", "staged", "committed"} => a.path \in Paths /\ MadeAt(d, a.stamp, a.path)
    /\ a.pc # "idle" => a.model \in Linkables

LinksTyped ==
    /\ DiskTyped
    /\ linkRow \in [Linkables -> Link]
    /\ check \in [Linkables -> Check]
    /\ call \in [Callers -> Call]
    /\ outdated \subseteq Callers

\* The inductive invariant: whatever names a version, in a row, in a check under way or in a
\* command, names one that was made at its path.
TruthInv ==
    /\ LinksTyped
    /\ \A m \in Linkables : RowTrue(disk, linkRow[m]) /\ CheckTrue(disk, check[m])
    /\ \A c \in Callers : CallTrue(disk, call[c])

(***************************************************************************)
(* The disk: versions are only added.                                      *)
(***************************************************************************)
LEMMA MaxIn ==
  ASSUME NEW n \in Nat, NEW S, S \subseteq 0..n, S # {}
  PROVE  Max(S) \in S
<1> DEFINE R == OpToRel(<, Nat)
<1> DEFINE T == {n - x : x \in S}
<1>1. PICK t \in T : \A y \in T : <<y, t>> \notin R
  <2>1. IsWellFoundedOn(R, Nat)
    BY NatLessThanWellFounded
  <2> HIDE DEF R
  <2>2. T \subseteq Nat /\ T # {}
    <3>1. \A x \in S : n - x \in Nat
      OBVIOUS
    <3> QED  BY <3>1, Zenon
  <2> HIDE DEF T
  <2> QED  BY <2>1, <2>2, WFMin
<1>2. PICK x \in S : t = n - x
  OBVIOUS
<1>3. ASSUME NEW y \in S  PROVE x >= y
  <2>1. R = {ss \in Nat \X Nat : ss[1] < ss[2]}
    BY Zenon DEF OpToRel
  <2>2. n - y \in T
    OBVIOUS
  <2>3. <<n - y, n - x>> \notin R
    BY <1>1, <1>2, <2>2
  <2> HIDE DEF R, T
  <2>4. ~(n - y < n - x)
    BY <2>1, <2>3
  <2> QED  BY <2>4
<1> QED  BY <1>3, Zenon DEF Max

Version == [path : Paths, content : Contents]

\* A step leaves the disk well typed, and every version made before stays as it is.
Grows == /\ DOMAIN disk.made \subseteq DOMAIN disk'.made
         /\ \A s \in DOMAIN disk.made : disk'.made[s] = disk.made[s]

LEMMA ChangeFileGrows ==
  ASSUME DiskTyped, NEW p \in Paths, ChangeFile(p)
  PROVE  DiskTyped' /\ Grows
<1>1. CASE \E c \in Contents :
             disk' = [disk EXCEPT !.made = Append(@, [path |-> p, content |-> c]),
                                  !.file[p] = Len(disk.made) + 1]
  <2>1. PICK c \in Contents :
             disk' = [disk EXCEPT !.made = Append(@, [path |-> p, content |-> c]),
                                  !.file[p] = Len(disk.made) + 1]
    BY <1>1
  <2>2. disk.made \in Seq(Version) /\ [path |-> p, content |-> c] \in Version
    BY DEF DiskTyped, Version
  <2>3. /\ Append(disk.made, [path |-> p, content |-> c]) \in Seq(Version)
        /\ Len(disk.made) \in Nat /\ DOMAIN disk.made = 1..Len(disk.made)
    BY <2>2
  <2>4. disk'.made = Append(disk.made, [path |-> p, content |-> c])
    BY <2>1 DEF DiskTyped
  <2>5. /\ DOMAIN disk'.made = 1..Len(disk.made) + 1
        /\ \A s \in 1..Len(disk.made) : disk'.made[s] = disk.made[s]
        /\ disk'.made[Len(disk.made) + 1] = [path |-> p, content |-> c]
    BY <2>2, <2>4
  <2>6. Grows
    BY <2>3, <2>5 DEF Grows
  <2>7. disk'.folders = disk.folders /\ disk'.file = [disk.file EXCEPT ![p] = Len(disk.made) + 1]
    BY <2>1 DEF DiskTyped
  <2>8. disk' \in [folders : SUBSET Folders, file : [Paths -> Nat], made : Seq(Version)]
    <3>1. disk'.made \in Seq(Version)
      BY <2>3, <2>4
    <3>2. disk'.file \in [Paths -> Nat]
      BY <2>3, <2>7 DEF DiskTyped
    <3>3. disk' = [[disk EXCEPT !.made = disk'.made] EXCEPT !.file = disk'.file]
      BY <2>1 DEF DiskTyped
    <3> QED  BY <3>1, <3>2, <3>3 DEF DiskTyped
  <2>9. ASSUME NEW q \in Paths, disk'.file[q] # 0
        PROVE  disk'.file[q] \in DOMAIN disk'.made /\ disk'.made[disk'.file[q]].path = q
    <3>1. CASE q = p
      BY <3>1, <2>3, <2>5, <2>7 DEF DiskTyped
    <3>2. CASE q # p
      BY <3>2, <2>6, <2>7, <2>9 DEF DiskTyped, Grows
    <3> QED  BY <3>1, <3>2
  <2> QED  BY <2>6, <2>8, <2>9 DEF DiskTyped, Version
<1>2. CASE \E s \in {s \in DOMAIN disk.made : disk.made[s].path = p} \cup {0} :
             s # disk.file[p] /\ disk' = [disk EXCEPT !.file[p] = s]
  <2>1. PICK s \in {s \in DOMAIN disk.made : disk.made[s].path = p} \cup {0} : disk' = [disk EXCEPT !.file[p] = s]
    BY <1>2
  <2>2. s \in Nat
    BY <2>1 DEF DiskTyped
  <2> QED  BY <2>1, <2>2 DEF DiskTyped, Grows
<1> QED  BY <1>1, <1>2 DEF ChangeFile

LEMMA FoldersGrow ==
  ASSUME DiskTyped, NEW d \in Folders, RemoveFolder(d) \/ MakeFolder(d)
  PROVE  DiskTyped' /\ Grows
<1>1. CASE RemoveFolder(d)
  BY <1>1 DEF RemoveFolder, DiskTyped, Grows
<1>2. CASE MakeFolder(d)
  <2> DEFINE made(p) == {s \in DOMAIN disk.made : disk.made[s].path = p}
             last(p) == Max({0} \cup made(p))
  <2>1. PICK back \in SUBSET {p \in Paths : FolderOf[p] = d} :
             disk' = [disk EXCEPT !.folders = @ \cup {d},
                                  !.file = [p \in Paths |-> IF p \in back THEN last(p) ELSE @[p]]]
    BY <1>2 DEF MakeFolder
  <2>2. ASSUME NEW p \in Paths  PROVE last(p) \in Nat /\ last(p) \in {0} \cup made(p)
    <3>1. Len(disk.made) \in Nat /\ DOMAIN disk.made = 1..Len(disk.made)
      BY DEF DiskTyped
    <3>2. {0} \cup made(p) \subseteq 0..Len(disk.made)
      BY <3>1
    <3>3. last(p) \in {0} \cup made(p)
      BY <3>1, <3>2, MaxIn
    <3> QED  BY <3>1, <3>2, <3>3
  <2> HIDE DEF last
  <2> QED  BY <2>1, <2>2 DEF DiskTyped, Grows
<1> QED  BY <1>1, <1>2

LEMMA DiskGrows ==
  ASSUME DiskTyped, LinksNext \/ UNCHANGED linked
  PROVE  DiskTyped' /\ Grows
<1>1. CASE UNCHANGED disk
  BY <1>1 DEF DiskTyped, Grows
<1>2. CASE DiskStep
  BY <1>2, ChangeFileGrows, FoldersGrow DEF DiskStep
<1>3. ASSUME NEW paths \in SUBSET heard, Handle(paths)  PROVE UNCHANGED disk
  BY <1>3 DEF Handle
<1>4. ASSUME CheckStep  PROVE UNCHANGED disk
  BY <1>4 DEF CheckStep, StartCheck, StatSource, ReadSource, ApplyOutcome, CheckFails, FollowUp
<1>5. ASSUME CallStep  PROVE UNCHANGED disk
  BY <1>5 DEF CallStep, StageChosen, CommitLink, FollowLink, UnfollowLink, Choose, EndLink, CheckSources
<1>6. ASSUME ListLinked \/ (\E m \in Linkables : RegisterListed(m)) \/ CheckListed \/ RestartLinks
      PROVE  UNCHANGED disk
  BY <1>6 DEF ListLinked, RegisterListed, CheckListed, RestartLinks
<1> QED  BY <1>1, <1>2, <1>3, <1>4, <1>5, <1>6 DEF LinksNext, linked

(***************************************************************************)
(* What was true of a version stays true.                                  *)
(***************************************************************************)
LEMMA StillTrue ==
  ASSUME DiskTyped, Grows
  PROVE  /\ \A row \in Link : RowTrue(disk, row) => RowTrue(disk', row)
         /\ \A c \in Check : CheckTrue(disk, c) => CheckTrue(disk', c)
         /\ \A a \in Call : CallTrue(disk, a) => CallTrue(disk', a)
<1>1. ASSUME NEW s, NEW p, MadeAt(disk, s, p)
      PROVE  MadeAt(disk', s, p) /\ \A c : Holds(disk, s, c) => Holds(disk', s, c)
  BY <1>1 DEF MadeAt, Holds, Grows
<1>2. ASSUME NEW row \in Link, RowTrue(disk, row)  PROVE RowTrue(disk', row)
  BY <1>1, <1>2 DEF RowTrue
<1>3. ASSUME NEW c \in Check, CheckTrue(disk, c)  PROVE CheckTrue(disk', c)
  <2>1. c.link \in Link
    BY DEF Check
  <2> QED  BY <1>1, <1>2, <1>3, <2>1 DEF CheckTrue
<1>4. ASSUME NEW a \in Call, CallTrue(disk, a)  PROVE CallTrue(disk', a)
  BY <1>1, <1>4 DEF CallTrue
<1> QED  BY <1>2, <1>3, <1>4

\* A version found at a path makes a true row.
LEMMA LinkageTrue ==
  ASSUME DiskTyped, NEW p \in Paths, NEW s, MadeAt(disk, s, p)
  PROVE  Linkage(p, s) \in Link /\ RowTrue(disk, Linkage(p, s)) /\ Content(s) \in Contents
<1>1. s \in Nat /\ disk.made[s] \in Version
  <2>1. disk.made \in Seq(Version) /\ s \in DOMAIN disk.made
    BY DEF DiskTyped, MadeAt, Version
  <2> QED  BY <2>1
<1>2. Content(s) \in Contents
  BY <1>1 DEF Content, Version
<1> QED  BY <1>1, <1>2 DEF Linkage, Link, RowTrue, Holds, Content

LEMMA BlankTrue ==
  /\ NoLink \in Link /\ NoCheck \in Check /\ NoCall \in Call
  /\ \A d, mode : mode # "linked" => RowTrue(d, [NoLink EXCEPT !.mode = mode])
  /\ \A d : RowTrue(d, NoLink) /\ CheckTrue(d, NoCheck) /\ CallTrue(d, NoCall)
BY DEF NoLink, NoCheck, NoCall, Link, Check, Call, RowTrue, CheckTrue, CallTrue

(***************************************************************************)
(* The steps, each by what it writes.                                      *)
(***************************************************************************)
Rows == linkRow' \in [Linkables -> Link] /\ \A m \in Linkables : RowTrue(disk, linkRow'[m])
Checks == check' \in [Linkables -> Check] /\ \A m \in Linkables : CheckTrue(disk, check'[m])
Calls == call' \in [Callers -> Call] /\ (\A c \in Callers : CallTrue(disk, call'[c])) /\ outdated' \subseteq Callers

LEMMA CheckKeeps ==
  ASSUME TruthInv, CheckStep
  PROVE  Rows /\ Checks /\ Calls
<1> USE DEF TruthInv, LinksTyped
<1>1. PICK m \in Linkables :
        \/ \E by \in {"scheduled", "retry"} : StartCheck(m, by)
        \/ StatSource(m) \/ ReadSource(m) \/ ApplyOutcome(m) \/ CheckFails(m) \/ FollowUp(m)
  BY DEF CheckStep
<1>2. ASSUME NEW new \in Check, CheckTrue(disk, new), SetCheck(m, new)  PROVE Checks
  BY <1>2 DEF Checks, SetCheck
<1>3. ASSUME UNCHANGED linkRow  PROVE Rows
  BY <1>3 DEF Rows
<1>4. ASSUME UNCHANGED call, outdated' \in {outdated} \cup SUBSET Callers  PROVE Calls
  BY <1>4 DEF Calls
<1>c. /\ check[m] \in Check /\ CheckTrue(disk, check[m]) /\ check[m].link \in Link
      /\ linkRow[m] \in Link /\ RowTrue(disk, linkRow[m])
  BY DEF Check
<1>5. CASE \E by \in {"scheduled", "retry"} : StartCheck(m, by)
  <2>1. PICK by \in {"scheduled", "retry"} : StartCheck(m, by)
    BY <1>5
  <2> DEFINE new == [NoCheck EXCEPT !.by = by, !.link = linkRow[m], !.pc = IF Following(m) THEN "stat" ELSE "follow"]
  <2>2. new \in Check
    BY <1>c, BlankTrue DEF Check
  <2>3. CheckTrue(disk, new)
    BY <1>c DEF CheckTrue, NoCheck, Following
  <2> QED  BY <2>1, <2>2, <2>3, <1>2, <1>3, <1>4 DEF StartCheck
<1>6. CASE StatSource(m)
  <2> DEFINE c == check[m]  s == disk.file[c.link.path]
             new == CASE s = 0 -> [c EXCEPT !.pc = "apply", !.found = "missing"]
                      [] s # 0 /\ c.link.state = "ok" /\ c.link.observed = s -> [c EXCEPT !.pc = "follow", !.found = "ok"]
                      [] OTHER -> [c EXCEPT !.pc = "read", !.stamp = s]
  <2>1. c.pc = "stat" /\ SetCheck(m, new) /\ UNCHANGED <<linkRow, call, outdated>>
    BY <1>6 DEF StatSource
  <2>2. c.link.path \in Paths /\ c.link.mode = "linked" /\ RowTrue(disk, c.link)
    BY <2>1, <1>c DEF CheckTrue, RowTrue
  <2>3. s \in Nat /\ (s # 0 => MadeAt(disk, s, c.link.path))
    BY <2>2 DEF DiskTyped, MadeAt
  <2>4. c.stamp = 0
    BY <2>1, <1>c DEF CheckTrue
  <2>5. new \in Check /\ CheckTrue(disk, new)
    BY <2>1, <2>2, <2>3, <2>4, <1>c DEF Check, CheckTrue
  <2> QED  BY <2>1, <2>5, <1>2, <1>3, <1>4
<1>7. CASE ReadSource(m)
  <2> DEFINE c == check[m]  read == Staged(c.link, c.stamp)
             new == [c EXCEPT !.pc = "apply", !.found = read.found, !.stamp = read.stamp]
  <2>1. c.pc = "read" /\ SetCheck(m, new) /\ UNCHANGED <<linkRow, call, outdated>>
    BY <1>7 DEF ReadSource
  <2>2. /\ read.found \in {"changing", "ok", "invalid", "new"} /\ read.stamp \in {0, c.stamp}
        /\ read.found \in {"ok", "new"} => read.stamp = c.stamp
        /\ read.found = "ok" => Content(c.stamp) = c.link.current
    BY DEF Staged
  <2>a. c \in Check /\ CheckTrue(disk, c) /\ c.link \in Link
    BY <1>c
  <2> HIDE DEF read, c
  <2>3. /\ new \in Check /\ new.pc = "apply" /\ new.link = c.link
        /\ new.found = read.found /\ new.stamp = read.stamp
    <3>1. read.found \in {"none", "ok", "missing", "changing", "invalid", "new"} /\ read.stamp \in Nat
      BY <2>2, <2>a DEF Check
    <3> QED  BY <3>1, <2>a DEF Check
  <2>4. /\ c.link.mode = "linked" /\ RowTrue(disk, c.link) /\ c.stamp # 0
        /\ MadeAt(disk, c.stamp, c.link.path)
    BY <2>1, <2>a DEF CheckTrue
  <2>5. CheckTrue(disk, new)
    BY <2>2, <2>3, <2>4 DEF CheckTrue, Holds, Content
  <2> QED  BY <2>1, <2>3, <2>5, <1>2, <1>3, <1>4
<1>8. CASE ApplyOutcome(m)
  <2> DEFINE c == check[m]  row == linkRow[m]  new == Recorded(row, c.found, c.stamp)
  <2>1. c.pc = "apply"
    BY <1>8 DEF ApplyOutcome
  <2>2. CASE LinkedAsSeen(row, c.link)
    <3>1. row.path = c.link.path /\ row.path \in Paths /\ row.mode = "linked" /\ row.current = c.link.current
      BY <2>1, <2>2, <1>c DEF LinkedAsSeen, CheckTrue, RowTrue
    <3>2. c.stamp # 0 => MadeAt(disk, c.stamp, row.path)
      BY <2>1, <3>1, <1>c DEF CheckTrue
    <3>3. ASSUME c.found = "new"  PROVE new \in Link /\ RowTrue(disk, new)
      <4>1. new = Linkage(row.path, c.stamp)
        BY <3>3 DEF Recorded
      <4>2. MadeAt(disk, c.stamp, row.path)
        BY <2>1, <3>2, <3>3, <1>c DEF CheckTrue
      <4> QED  BY <4>1, <4>2, <3>1, LinkageTrue
    <3>4. ASSUME c.found # "new"  PROVE new \in Link /\ RowTrue(disk, new)
      <4>1. new = [row EXCEPT !.state = c.found, !.observed = IF c.stamp = 0 THEN @ ELSE c.stamp]
        BY <3>4 DEF Recorded
      <4>2. new \in Link
        BY <4>1, <3>4, <2>1, <1>c DEF Link, Check, CheckTrue
      <4>3. RowTrue(disk, new)
        BY <4>1, <3>1, <3>2, <2>1, <1>c DEF RowTrue, CheckTrue, Link
      <4> HIDE DEF new
      <4> QED  BY <4>2, <4>3
    <3>5. new \in Link /\ RowTrue(disk, new)
      <4> HIDE DEF new
      <4> QED  BY <3>3, <3>4
    <3> HIDE DEF new
    <3>6. Rows
      <4>1. UNCHANGED linkRow \/ SaveLink(m, new)
        BY <1>8, <2>2 DEF ApplyOutcome, new
      <4>2. ASSUME SaveLink(m, new)  PROVE Rows
        BY <4>2, <3>5 DEF SaveLink, Rows
      <4> QED  BY <4>1, <4>2, <1>3
    <3>7. Calls
      BY <1>8, <2>2, <1>4 DEF ApplyOutcome, SaveLink
    <3>8. [c EXCEPT !.pc = "follow"] \in Check /\ CheckTrue(disk, [c EXCEPT !.pc = "follow"])
      BY <1>c DEF Check, CheckTrue
    <3> QED  BY <1>8, <2>2, <3>6, <3>7, <3>8, <1>2 DEF ApplyOutcome
  <2>3. CASE ~LinkedAsSeen(row, c.link)
    <3>1. /\ [c EXCEPT !.pc = "follow", !.found = "none"] \in Check
          /\ CheckTrue(disk, [c EXCEPT !.pc = "follow", !.found = "none"])
      BY <1>c DEF Check, CheckTrue
    <3> QED  BY <1>8, <2>3, <3>1, <1>2, <1>3, <1>4 DEF ApplyOutcome
  <2> QED  BY <2>2, <2>3
<1>9. CASE CheckFails(m)
  BY <1>9, <1>2, <1>3, <1>4, BlankTrue DEF CheckFails
<1>10. CASE FollowUp(m)
  BY <1>10, <1>2, <1>3, <1>4, BlankTrue DEF FollowUp
<1> QED  BY <1>1, <1>5, <1>6, <1>7, <1>8, <1>9, <1>10

LEMMA CallKeeps ==
  ASSUME TruthInv, CallStep
  PROVE  Rows /\ Checks /\ Calls
<1> USE DEF TruthInv, LinksTyped
<1>1. ASSUME UNCHANGED check  PROVE Checks
  BY <1>1 DEF Checks
<1>2. ASSUME UNCHANGED linkRow  PROVE Rows
  BY <1>2 DEF Rows
<1>3. ASSUME NEW m \in Linkables, NEW new \in Link, RowTrue(disk, new), SaveLink(m, new)
      PROVE  Rows /\ outdated' \subseteq Callers
  BY <1>3 DEF Rows, SaveLink
<1>4. ASSUME NEW c \in Callers, NEW new \in Call, CallTrue(disk, new), SetCall(c, new), outdated' \subseteq Callers
      PROVE  Calls
  BY <1>4 DEF Calls, SetCall
<1>5. ASSUME NEW c \in Callers, StageChosen(c) \/ CommitLink(c) \/ FollowLink(c) \/ UnfollowLink(c)
      PROVE  Rows /\ Checks /\ Calls
  <2> DEFINE a == call[c]
  <2>a. a \in Call /\ CallTrue(disk, a)
    OBVIOUS
  <2>1. CASE StageChosen(c)
    <3>1. [a EXCEPT !.pc = "staged"] \in Call
      BY <2>a DEF Call
    <3>2. a.pc = "staging" => CallTrue(disk, [a EXCEPT !.pc = "staged"])
      BY <2>a DEF Call, CallTrue
    <3> QED  BY <2>1, <3>1, <3>2, <1>1, <1>2, <1>4, BlankTrue DEF StageChosen
  <2>2. CASE CommitLink(c)
    <3>1. /\ Linkage(a.path, a.stamp) \in Link /\ RowTrue(disk, Linkage(a.path, a.stamp))
          /\ a.pc = "staged" /\ a.model \in Linkables
      BY <2>2, <2>a, LinkageTrue DEF CommitLink, CallTrue
    <3>2. [a EXCEPT !.pc = "committed"] \in Call /\ CallTrue(disk, [a EXCEPT !.pc = "committed"])
      BY <3>1, <2>a DEF Call, CallTrue
    <3>3. CASE c \in outdated
      BY <2>2, <3>3, <1>1, <1>2, <1>4, BlankTrue DEF CommitLink
    <3>4. CASE c \notin outdated
      <4>1. Rows /\ outdated' \subseteq Callers
        BY <2>2, <3>4, <3>1, <1>3 DEF CommitLink
      <4> QED  BY <2>2, <3>4, <4>1, <3>2, <1>1, <1>4 DEF CommitLink
    <3> QED  BY <3>3, <3>4
  <2>3. CASE FollowLink(c)
    BY <2>3, <1>1, <1>2, <1>4, BlankTrue DEF FollowLink
  <2>4. CASE UnfollowLink(c)
    BY <2>4, <1>1, <1>2, <1>4, BlankTrue DEF UnfollowLink
  <2> QED  BY <1>5, <2>1, <2>2, <2>3, <2>4
<1>6. ASSUME NEW c \in Callers, NEW m \in Linkables, NEW p \in Paths, Choose(c, m, p)
      PROVE  Rows /\ Checks /\ Calls
  <2> DEFINE new == [pc |-> "staging", model |-> m, path |-> p, stamp |-> disk.file[p]]
  <2>1. disk.file[p] # 0 /\ SetCall(c, new) /\ outdated' = outdated \ {c} /\ UNCHANGED <<linkRow, check>>
    BY <1>6 DEF Choose
  <2>2. new \in Call /\ CallTrue(disk, new)
    BY <2>1 DEF Call, CallTrue, MadeAt, DiskTyped
  <2> QED  BY <2>1, <2>2, <1>1, <1>2, <1>4
<1>7. ASSUME NEW c \in Callers, NEW m \in Linkables, NEW mode \in {"managed", "deleted"}, EndLink(c, m, mode)
      PROVE  Rows /\ Checks /\ Calls
  <2> DEFINE new == [NoLink EXCEPT !.mode = mode]
             ended == [NoCall EXCEPT !.pc = "ended", !.model = m]
  <2>1. SaveLink(m, new) /\ SetCall(c, ended) /\ UNCHANGED check
    BY <1>7 DEF EndLink
  <2>2. new \in Link /\ RowTrue(disk, new)
    BY BlankTrue DEF Link
  <2>3. ended \in Call /\ CallTrue(disk, ended)
    BY DEF NoCall, Call, CallTrue
  <2>4. Rows /\ outdated' \subseteq Callers
    BY <2>1, <2>2, <1>3
  <2> QED  BY <2>1, <2>3, <2>4, <1>1, <1>4
<1>8. ASSUME NEW models \in SUBSET Linkables, CheckSources(models)  PROVE Rows /\ Checks /\ Calls
  BY <1>8, <1>1, <1>2 DEF CheckSources, Calls
<1>9. (CHOOSE c \in IdleCallers : TRUE) \in Callers \/ IdleCallers = {}
  BY DEF IdleCallers
<1> QED  BY <1>5, <1>6, <1>7, <1>8, <1>9 DEF CallStep

LEMMA OthersKeep ==
  ASSUME TruthInv,
         \/ \E paths \in SUBSET heard : Handle(paths)
         \/ DiskStep \/ ListLinked \/ (\E m \in Linkables : RegisterListed(m)) \/ CheckListed \/ RestartLinks
         \/ UNCHANGED linked
  PROVE  Rows /\ Checks /\ Calls
<1> USE DEF TruthInv, LinksTyped, Rows, Checks, Calls
<1>1. ASSUME UNCHANGED <<linkRow, check, call, outdated>>  PROVE Rows /\ Checks /\ Calls
  BY <1>1
<1>2. CASE \E paths \in SUBSET heard : Handle(paths)
  BY <1>2, <1>1 DEF Handle
<1>3. CASE DiskStep
  BY <1>3, <1>1 DEF DiskStep, ChangeFile, RemoveFolder, MakeFolder, Unmoved
<1>4. CASE ListLinked \/ (\E m \in Linkables : RegisterListed(m)) \/ CheckListed
  BY <1>4, <1>1 DEF ListLinked, RegisterListed, CheckListed
<1>5. CASE RestartLinks
  BY <1>5, BlankTrue DEF RestartLinks
<1>6. CASE UNCHANGED linked
  BY <1>6, <1>1 DEF linked
<1> QED  BY <1>2, <1>3, <1>4, <1>5, <1>6

LEMMA TruthStep ==
  ASSUME TruthInv, [LinksNext]_linked
  PROVE  TruthInv'
<1>1. DiskTyped' /\ Grows
  BY DiskGrows DEF TruthInv, LinksTyped
<1>2. Rows /\ Checks /\ Calls
  BY CheckKeeps, CallKeeps, OthersKeep DEF LinksNext
<1>3. DiskTyped
  BY DEF TruthInv, LinksTyped
<1> QED  BY <1>1, <1>2, <1>3, StillTrue DEF TruthInv, LinksTyped, Rows, Checks, Calls

LEMMA TruthInit == LinksInit => TruthInv
<1> SUFFICES ASSUME LinksInit  PROVE TruthInv
  OBVIOUS
<1>1. DiskTyped
  BY DEF LinksInit
<1>2. ASSUME NEW p \in Paths, disk.file[p] # 0
      PROVE  Linkage(p, disk.file[p]) \in Link /\ RowTrue(disk, Linkage(p, disk.file[p]))
  BY <1>1, <1>2, LinkageTrue DEF DiskTyped, MadeAt
<1>3. \A m \in Linkables : linkRow[m] \in Link /\ RowTrue(disk, linkRow[m])
  BY <1>2, BlankTrue DEF LinksInit
<1>4. linkRow \in [Linkables -> Link]
  BY <1>3 DEF LinksInit
<1>5. /\ check \in [Linkables -> Check] /\ call \in [Callers -> Call] /\ outdated \subseteq Callers
      /\ \A m \in Linkables : CheckTrue(disk, check[m])
      /\ \A c \in Callers : CallTrue(disk, call[c])
  BY BlankTrue DEF LinksInit
<1> QED  BY <1>1, <1>3, <1>4, <1>5 DEF TruthInv, LinksTyped

\* Every version named by a row, a check or a command was made at its path, in every
\* reachable state, for any Models, paths, folders and bounds.
THEOREM VersionsNamed == LinksSpec => []TruthInv
<1>1. LinksInit => TruthInv
  BY TruthInit
<1>2. TruthInv /\ [LinksNext]_linked => TruthInv'
  BY TruthStep
<1> QED  BY <1>1, <1>2, PTL DEF LinksSpec

\* No check that was overtaken by a relocation, a conversion or another revision leaves its
\* result behind: what a Model shows while its source is ok was written at its own path.
THEOREM LinksTruthful == LinksSpec => []TruthfulLink
<1>1. TruthInv => TruthfulLink
  <2> SUFFICES ASSUME TruthInv, NEW m \in Linkables, Following(m), linkRow[m].state = "ok"
               PROVE  disk.made[linkRow[m].observed] = [path |-> linkRow[m].path, content |-> linkRow[m].current]
    BY DEF TruthfulLink
  <2>1. MadeAt(disk, linkRow[m].observed, linkRow[m].path) /\ Holds(disk, linkRow[m].observed, linkRow[m].current)
    BY DEF TruthInv, RowTrue, Following
  <2>2. disk.made[linkRow[m].observed] \in Version
    <3>1. disk.made \in Seq(Version) /\ linkRow[m].observed \in DOMAIN disk.made
      BY <2>1 DEF TruthInv, LinksTyped, DiskTyped, MadeAt, Version
    <3> QED  BY <3>1
  <2> QED  BY <2>1, <2>2 DEF Version, MadeAt, Holds
<1> QED  BY <1>1, VersionsNamed, PTL

(***************************************************************************)
(* The folders.                                                            *)
(***************************************************************************)
NestedIn(F) == \A d \in Folders :
    /\ Len(Ancestors[d]) = 1 => d \in F
    /\ Len(Ancestors[d]) > 1 /\ d \in F => Ancestors[d][2] \in F

\* The first of d and its ancestors that is in F.
NearestIn(F, d) == Ancestors[d][SelectInSeq(Ancestors[d], LAMBDA x : x \in F)]
FirstIn(F, d, k) == /\ k \in 1..Len(Ancestors[d]) /\ Ancestors[d][k] \in F
                    /\ \A j \in 1..(k - 1) : Ancestors[d][j] \notin F

LEMMA SmallestNumber ==
  ASSUME NEW S, S \subseteq Nat, S # {}
  PROVE  \E x \in S : \A y \in S : x <= y
<1> DEFINE R == OpToRel(<, Nat)
<1>1. PICK x \in S : \A y \in S : <<y, x>> \notin R
  <2>1. IsWellFoundedOn(R, Nat)
    BY NatLessThanWellFounded
  <2> HIDE DEF R
  <2> QED  BY <2>1, WFMin
<1>2. R = {ss \in Nat \X Nat : ss[1] < ss[2]}
  BY Zenon DEF OpToRel
<1> HIDE DEF R
<1>3. ASSUME NEW y \in S  PROVE x <= y
  <2>1. x \in Nat /\ y \in Nat /\ <<y, x>> \notin R
    BY <1>1
  <2> QED  BY <1>2, <2>1
<1> QED  BY <1>3

\* What follows a folder among the ancestors of d is the folder around it.
LEMMA Chained ==
  ASSUME NEW d \in Folders, NEW k \in 1..Len(Ancestors[d])
  PROVE  /\ Len(Ancestors[d]) \in Nat \ {0} /\ Ancestors[d][1] = d /\ Ancestors[d][k] \in Folders
         /\ Len(Ancestors[Ancestors[d][k]]) = Len(Ancestors[d]) - k + 1
         /\ k < Len(Ancestors[d]) => Ancestors[Ancestors[d][k]][2] = Ancestors[d][k + 1]
<1> DEFINE s == Ancestors[d]
<1>1. s \in Seq(Folders) /\ s # <<>> /\ s[1] = d
  BY FoldersAssumption
<1>2. Len(s) \in Nat \ {0} /\ DOMAIN s = 1..Len(s) /\ k \in 1..Len(s) /\ s[k] \in Folders
  BY <1>1
<1>3. Ancestors[s[k]] = SubSeq(s, k, Len(s))
  BY <1>2, FoldersAssumption
<1> HIDE DEF s
<1>4. /\ Len(SubSeq(s, k, Len(s))) = Len(s) - k + 1
      /\ \A i \in 1..(Len(s) - k + 1) : SubSeq(s, k, Len(s))[i] = s[k + i - 1]
  <2>1. \A i \in k..Len(s) : s[i] \in Folders
    BY <1>1, <1>2
  <2>2. k \in Int /\ Len(s) \in Int /\ k <= Len(s)
    BY <1>2
  <2>3. /\ Len(SubSeq(s, k, Len(s))) = IF k <= Len(s) THEN Len(s) - k + 1 ELSE 0
        /\ \A i \in 1..(Len(s) - k + 1) : SubSeq(s, k, Len(s))[i] = s[k + i - 1]
    BY <2>1, <2>2, SubSeqProperties
  <2> QED  BY <2>2, <2>3
<1>5. k < Len(s) => SubSeq(s, k, Len(s))[2] = s[k + 1]
  <2> SUFFICES ASSUME k < Len(s)  PROVE SubSeq(s, k, Len(s))[2] = s[k + 1]
    OBVIOUS
  <2>1. 2 \in 1..(Len(s) - k + 1) /\ k + 2 - 1 = k + 1
    BY <1>2
  <2> QED  BY <1>4, <2>1
<1> QED  BY <1>1, <1>2, <1>3, <1>4, <1>5 DEF s

LEMMA NearestIs ==
  ASSUME NEW F, NEW d \in Folders, NEW k, FirstIn(F, d, k)
  PROVE  NearestIn(F, d) = Ancestors[d][k]
<1> DEFINE I == {i \in 1..Len(Ancestors[d]) : Ancestors[d][i] \in F}
<1>0. Len(Ancestors[d]) \in Nat
  BY FoldersAssumption
<1>1. k \in I /\ \A i \in I : k <= i
  BY <1>0 DEF FirstIn
<1>2. Min(I) = k
  <2>1. \A i \in I : (\A j \in I : i <= j) => i = k
    BY <1>0, <1>1
  <2> HIDE DEF I
  <2> QED  BY <1>1, <2>1, Zenon DEF Min
<1>3. SelectInSeq(Ancestors[d], LAMBDA x : x \in F) = k
  BY <1>1, <1>2, Zenon DEF SelectInSeq
<1> QED  BY <1>3 DEF NearestIn

\* The outermost folder is always there.
LEMMA FirstThere ==
  ASSUME NEW F, NestedIn(F), NEW d \in Folders
  PROVE  \E k : FirstIn(F, d, k)
<1> DEFINE n == Len(Ancestors[d])
           I == {i \in 1..n : Ancestors[d][i] \in F}
<1>0. n \in Nat \ {0}
  BY FoldersAssumption
<1>1. n \in I
  <2>1. n \in 1..n
    BY <1>0
  <2>2. Ancestors[d][n] \in Folders /\ Len(Ancestors[Ancestors[d][n]]) = n - n + 1
    BY <2>1, Chained
  <2> QED  BY <1>0, <2>1, <2>2 DEF NestedIn
<1>2. PICK k \in I : \A i \in I : k <= i
  <2>1. I \subseteq Nat
    OBVIOUS
  <2> HIDE DEF I
  <2> QED  BY <1>1, <2>1, SmallestNumber
<1>3. ASSUME NEW j \in 1..(k - 1)  PROVE j \notin I
  BY <1>0, <1>2, <1>3
<1>4. FirstIn(F, d, k)
  BY <1>0, <1>2, <1>3 DEF FirstIn
<1> QED  BY <1>4

LEMMA NearestThere ==
  ASSUME NEW F, NestedIn(F), NEW d \in Folders
  PROVE  NearestIn(F, d) \in F /\ NearestIn(F, d) \in Folders /\ (d \in F => NearestIn(F, d) = d)
<1>1. PICK k : FirstIn(F, d, k)
  BY FirstThere
<1>2. NearestIn(F, d) = Ancestors[d][k]
  BY <1>1, NearestIs
<1>3. k \in 1..Len(Ancestors[d])
  BY <1>1 DEF FirstIn
<1>4. Ancestors[d][k] \in Folders /\ Ancestors[d][1] = d /\ Len(Ancestors[d]) \in Nat \ {0}
  BY <1>3, Chained
<1>5. ASSUME d \in F  PROVE k = 1
  BY <1>1, <1>4, <1>5 DEF FirstIn
<1> QED  BY <1>1, <1>2, <1>4, <1>5 DEF FirstIn

\* When x goes, what was nearest stays so, or it was x and is now the folder around it.
LEMMA NearestWithout ==
  ASSUME NEW F, NestedIn(F), NEW x \in Folders, Len(Ancestors[x]) > 1, x \in F, Inside(x) \cap F = {},
         NEW d \in Folders
  PROVE  /\ NestedIn(F \ {x})
         /\ \/ NearestIn(F \ {x}, d) = NearestIn(F, d)
            \/ NearestIn(F, d) = x /\ NearestIn(F \ {x}, d) = Ancestors[x][2]
<1>1. NestedIn(F \ {x})
  <2> SUFFICES ASSUME NEW y \in Folders
               PROVE  /\ Len(Ancestors[y]) = 1 => y \in F \ {x}
                      /\ Len(Ancestors[y]) > 1 /\ y \in F \ {x} => Ancestors[y][2] \in F \ {x}
    BY DEF NestedIn
  <2>1. Len(Ancestors[y]) > 1 /\ y \in F => Ancestors[y][2] # x
    BY DEF Inside
  <2> QED  BY <2>1 DEF NestedIn
<1>2. PICK k : FirstIn(F, d, k)
  BY FirstThere
<1>3. NearestIn(F, d) = Ancestors[d][k] /\ k \in 1..Len(Ancestors[d]) /\ Len(Ancestors[d]) \in Nat
  <2>1. NearestIn(F, d) = Ancestors[d][k]
    BY <1>2, NearestIs
  <2> QED  BY <1>2, <2>1, FoldersAssumption DEF FirstIn
<1>4. CASE Ancestors[d][k] # x
  <2>1. FirstIn(F \ {x}, d, k)
    BY <1>2, <1>4 DEF FirstIn
  <2> QED  BY <1>1, <1>3, <2>1, NearestIs
<1>5. CASE Ancestors[d][k] = x
  <2>1. Len(Ancestors[x]) = Len(Ancestors[d]) - k + 1 /\ (k < Len(Ancestors[d]) => Ancestors[x][2] = Ancestors[d][k + 1])
    BY <1>3, <1>5, Chained
  <2>2. k < Len(Ancestors[d]) /\ k + 1 \in 1..Len(Ancestors[d]) /\ Ancestors[d][k + 1] = Ancestors[x][2]
    BY <1>3, <2>1
  <2>3. Ancestors[x][2] \in F
    BY DEF NestedIn
  <2>4. Ancestors[x][2] # x
    <3>1. Len(Ancestors[Ancestors[d][k + 1]]) = Len(Ancestors[d]) - (k + 1) + 1
      BY <2>2, Chained
    <3>2. Len(Ancestors[d]) - (k + 1) + 1 # Len(Ancestors[d]) - k + 1
      BY <1>3, <2>2
    <3> QED  BY <2>1, <2>2, <3>1, <3>2
  <2>5. FirstIn(F \ {x}, d, k + 1)
    <3>1. \A j \in 1..k : Ancestors[d][j] \notin F \ {x}
      BY <1>2, <1>3, <1>5 DEF FirstIn
    <3>2. (k + 1) - 1 = k
      BY <1>3
    <3> QED  BY <2>2, <2>3, <2>4, <3>1, <3>2 DEF FirstIn
  <2> QED  BY <1>1, <1>3, <1>5, <2>2, <2>5, NearestIs
<1> QED  BY <1>4, <1>5

\* When x comes, what was nearest stays so, or it was the folder around x and is now x.
LEMMA NearestWith ==
  ASSUME NEW F, NestedIn(F), NEW x \in Folders, Around(x) \subseteq F, x \notin F,
         NEW d \in Folders
  PROVE  /\ NestedIn(F \cup {x}) /\ Len(Ancestors[x]) > 1
         /\ \/ NearestIn(F \cup {x}, d) = NearestIn(F, d)
            \/ NearestIn(F, d) = Ancestors[x][2] /\ NearestIn(F \cup {x}, d) = x
<1>1. NestedIn(F \cup {x})
  <2>1. Ancestors[x][2] \in F
    BY DEF Around
  <2> QED  BY <2>1 DEF NestedIn
<1>0. Len(Ancestors[x]) > 1
  <2>1. Len(Ancestors[x]) \in Nat \ {0}
    BY FoldersAssumption
  <2>2. Len(Ancestors[x]) # 1
    BY Zenon DEF NestedIn
  <2> DEFINE n == Len(Ancestors[x])
  <2> HIDE DEF n
  <2>3. n \in Nat \ {0} /\ n # 1
    BY <2>1, <2>2, Zenon DEF n
  <2>4. n > 1
    BY <2>3
  <2> QED  BY <2>4 DEF n
<1>2. PICK k : FirstIn(F \cup {x}, d, k)
  BY <1>1, FirstThere
<1>3. /\ NearestIn(F \cup {x}, d) = Ancestors[d][k] /\ k \in 1..Len(Ancestors[d]) /\ Len(Ancestors[d]) \in Nat
      /\ \A j \in 1..(k - 1) : Ancestors[d][j] \notin F
  <2>1. NearestIn(F \cup {x}, d) = Ancestors[d][k]
    BY <1>2, NearestIs
  <2>2. Len(Ancestors[d]) \in Nat
    BY FoldersAssumption
  <2>3. k \in 1..Len(Ancestors[d]) /\ \A j \in 1..(k - 1) : Ancestors[d][j] \notin F
    BY <1>2 DEF FirstIn
  <2> QED  BY <2>1, <2>2, <2>3
<1>4. CASE Ancestors[d][k] # x
  <2>1. FirstIn(F, d, k)
    BY <1>2, <1>4 DEF FirstIn
  <2> QED  BY <1>0, <1>1, <1>3, <2>1, NearestIs
<1>5. CASE Ancestors[d][k] = x
  <2>1. Len(Ancestors[x]) = Len(Ancestors[d]) - k + 1 /\ (k < Len(Ancestors[d]) => Ancestors[x][2] = Ancestors[d][k + 1])
    BY <1>3, <1>5, Chained
  <2>2. k < Len(Ancestors[d]) /\ k + 1 \in 1..Len(Ancestors[d]) /\ Ancestors[d][k + 1] = Ancestors[x][2]
    BY <1>0, <1>3, <2>1
  <2>3. FirstIn(F, d, k + 1)
    <3>1. \A j \in 1..k : Ancestors[d][j] \notin F
      BY <1>3, <1>5
    <3>2. (k + 1) - 1 = k
      BY <1>3
    <3>3. Ancestors[x][2] \in F
      BY DEF Around
    <3> QED  BY <1>0, <2>2, <3>1, <3>2, <3>3 DEF FirstIn
  <2> QED  BY <1>0, <1>1, <1>3, <1>5, <2>2, <2>3, NearestIs
<1> QED  BY <1>4, <1>5

(***************************************************************************)
(* The watches.                                                            *)
(***************************************************************************)
Registration == {NoReg} \cup [parent : Folders, watched : Folders]
Watching(reg, d) == {m \in Linkables : reg[m].watched = d}

\* A directory's references are as many as the Models registered there.
WatchesCounted(w) ==
    /\ w \in [reg : [Linkables -> Registration], refs : [Folders -> Nat], alive : SUBSET Folders]
    /\ \A d \in Folders : w.refs[d] = Cardinality(Watching(w.reg, d))

\* With the folders F, what is watched has a living watch, or h has word of it.
WatchesLive(F, w, h) == \A d \in Folders :
    /\ d \in w.alive => d \in F /\ w.refs[d] > 0
    /\ w.refs[d] > 0 => d \in w.alive \cup h

LEMMA NearestExists ==
  \A d : NearestExisting(d) = NearestIn(disk.folders, d)
BY DEF NearestExisting, NearestIn

LEMMA NowhereRegistered ==
  /\ NoReg \in Registration /\ NoReg.watched = Nothing /\ Nothing \notin Folders
  /\ \A r \in Registration : r # NoReg => r.watched \in Folders /\ r.parent \in Folders
  /\ \A r \in Registration : r.watched \in Folders \/ r.parent \in Folders => r # NoReg
BY LinksAssumption DEF NoReg, Registration

LEMMA Recounted ==
  ASSUME NEW reg \in [Linkables -> Registration], NEW m \in Linkables, NEW new \in Registration, NEW d
  PROVE  LET before == Cardinality(Watching(reg, d))
             after == Cardinality(Watching([reg EXCEPT ![m] = new], d))
         IN /\ before \in Nat /\ after \in Nat
            /\ reg[m].watched = d => before > 0
            /\ after = before - (IF reg[m].watched = d THEN 1 ELSE 0) + (IF new.watched = d THEN 1 ELSE 0)
<1> DEFINE S == Watching(reg, d)
           T == Watching([reg EXCEPT ![m] = new], d)
           R == S \ {m}
<1>1. IsFiniteSet(S)
  <2>1. S \in SUBSET Linkables
    BY DEF Watching
  <2> QED  BY <2>1, FS_Subset, FoldersAssumption
<1>2. T = IF new.watched = d THEN R \cup {m} ELSE R
  BY DEF Watching
<1>3. m \notin R /\ (m \in S <=> reg[m].watched = d)
  BY DEF Watching
<1> HIDE DEF S, T
<1>4. IsFiniteSet(R) /\ Cardinality(R) = (IF m \in S THEN Cardinality(S) - 1 ELSE Cardinality(S))
  BY <1>1, FS_RemoveElement
<1> HIDE DEF R
<1>5. IsFiniteSet(R \cup {m}) /\ Cardinality(R \cup {m}) = Cardinality(R) + 1
  BY <1>3, <1>4, FS_AddElement
<1>6. IsFiniteSet(T)
  BY <1>2, <1>4, <1>5
<1>7. Cardinality(S) \in Nat /\ Cardinality(T) \in Nat /\ Cardinality(R) \in Nat
  BY <1>1, <1>4, <1>6, FS_CardinalityType
<1>8. m \in S => Cardinality(S) > 0
  <2>1. Cardinality(S) = 0 <=> S = {}
    BY <1>1, FS_EmptySet
  <2> QED  BY <1>7, <2>1
<1> QED  BY <1>2, <1>3, <1>4, <1>5, <1>7, <1>8 DEF S, T

\* A Model's registration is a reference on the directory it watches.
LEMMA WatchedCounts ==
  ASSUME NEW w, WatchesCounted(w), NEW m \in Linkables, w.reg[m] # NoReg
  PROVE  w.reg[m].watched \in Folders /\ w.reg[m].parent \in Folders /\ w.refs[w.reg[m].watched] > 0
<1>1. w.reg \in [Linkables -> Registration] /\ w.reg[m] \in Registration
  BY DEF WatchesCounted
<1>2. w.reg[m].watched \in Folders /\ w.reg[m].parent \in Folders
  BY <1>1, NowhereRegistered
<1>3. Cardinality(Watching(w.reg, w.reg[m].watched)) > 0
  BY <1>1, Recounted
<1> QED  BY <1>2, <1>3 DEF WatchesCounted

\* Releasing what m watched and taking new instead keeps the counts; so it does the watches.
LEMMA Reregistered ==
  ASSUME NEW w, WatchesCounted(w), NEW m \in Linkables, NEW new \in Registration, NEW v,
         v.reg = [w.reg EXCEPT ![m] = new], v.alive \subseteq Folders,
         v \in [reg : {v.reg}, refs : [Folders -> Int], alive : {v.alive}],
         \A d \in Folders : v.refs[d] = w.refs[d] - (IF w.reg[m].watched = d THEN 1 ELSE 0)
                                                  + (IF new.watched = d THEN 1 ELSE 0)
  PROVE  WatchesCounted(v)
<1>1. w.reg \in [Linkables -> Registration] /\ v.reg \in [Linkables -> Registration]
  BY DEF WatchesCounted
<1>2. ASSUME NEW d \in Folders  PROVE v.refs[d] = Cardinality(Watching(v.reg, d)) /\ v.refs[d] \in Nat
  <2>1. w.refs[d] = Cardinality(Watching(w.reg, d))
    BY DEF WatchesCounted
  <2>2. Cardinality(Watching([w.reg EXCEPT ![m] = new], d)) \in Nat
        /\ Cardinality(Watching([w.reg EXCEPT ![m] = new], d)) = Cardinality(Watching(w.reg, d))
                 - (IF w.reg[m].watched = d THEN 1 ELSE 0) + (IF new.watched = d THEN 1 ELSE 0)
    BY <1>1, Recounted
  <2> QED  BY <2>1, <2>2
<1>3. v.refs \in [Folders -> Nat]
  BY <1>2
<1>4. v \in [reg : [Linkables -> Registration], refs : [Folders -> Nat], alive : SUBSET Folders]
  <2>1. v.alive \in SUBSET Folders
    OBVIOUS
  <2> QED  BY <1>1, <1>3, <2>1
<1> QED  BY <1>2, <1>4 DEF WatchesCounted

LEMMA Unregistered ==
  ASSUME NEW w, WatchesCounted(w), NEW m \in Linkables
  PROVE  /\ WatchesCounted(Unregister(w, m))
         /\ Unregister(w, m).reg = [w.reg EXCEPT ![m] = NoReg]
         /\ \A F, h : WatchesLive(F, w, h) => WatchesLive(F, Unregister(w, m), h)
<1> DEFINE o == w.reg[m].watched
           u == [w EXCEPT !.refs[o] = @ - 1, !.alive = IF w.refs[o] = 1 THEN @ \ {o} ELSE @]
           v == [u EXCEPT !.reg[m] = NoReg]
<1>w. /\ w \in [reg : [Linkables -> Registration], refs : [Folders -> Nat], alive : SUBSET Folders]
      /\ w.reg \in [Linkables -> Registration] /\ w.refs \in [Folders -> Nat] /\ w.alive \subseteq Folders
  BY DEF WatchesCounted
<1>1. CASE w.reg[m] = NoReg
  <2>1. Unregister(w, m) = w /\ w.reg = [w.reg EXCEPT ![m] = NoReg]
    BY <1>1, <1>w DEF Unregister
  <2> QED  BY <2>1
<1>2. CASE w.reg[m] # NoReg
  <2>1. Unregister(w, m) = v
    BY <1>2, Zenon DEF Unregister, ReleaseWatch
  <2>2. o \in Folders /\ w.refs[o] > 0
    BY <1>2, WatchedCounts
  <2>3. /\ v.reg = [w.reg EXCEPT ![m] = NoReg]
        /\ v.refs = [w.refs EXCEPT ![o] = @ - 1]
        /\ v.alive = IF w.refs[o] = 1 THEN w.alive \ {o} ELSE w.alive
        /\ v \in [reg : {v.reg}, refs : {v.refs}, alive : {v.alive}]
    BY <1>w
  <2> HIDE DEF u, v
  <2>4. v.refs \in [Folders -> Int] /\ v.alive \subseteq Folders
    BY <1>w, <2>2, <2>3
  <2>5. \A d \in Folders : v.refs[d] = w.refs[d] - (IF w.reg[m].watched = d THEN 1 ELSE 0)
                                                 + (IF NoReg.watched = d THEN 1 ELSE 0)
    BY <1>w, <2>3, NowhereRegistered
  <2>6. WatchesCounted(v)
    BY <2>3, <2>4, <2>5, NowhereRegistered, Reregistered
  <2>7. ASSUME NEW F, NEW h, WatchesLive(F, w, h)  PROVE WatchesLive(F, v, h)
    BY <1>w, <2>2, <2>3, <2>7 DEF WatchesLive
  <2> QED  BY <2>1, <2>3, <2>6, <2>7
<1> QED  BY <1>1, <1>2

LEMMA Registered ==
  ASSUME NEW w, WatchesCounted(w), NestedIn(disk.folders), NEW m \in Linkables, NEW p \in Paths
  PROVE  /\ WatchesCounted(Register(w, m, p))
         /\ Register(w, m, p).reg = [w.reg EXCEPT ![m] = [parent |-> FolderOf[p],
                                                          watched |-> NearestExisting(FolderOf[p])]]
         /\ \A h : WatchesLive(disk.folders, w, h) => WatchesLive(disk.folders, Register(w, m, p), h)
<1> DEFINE u == Unregister(w, m)
           d == NearestExisting(FolderOf[p])
           new == [parent |-> FolderOf[p], watched |-> d]
           a == [u EXCEPT !.refs[d] = @ + 1, !.alive = IF u.refs[d] = 0 THEN @ \cup {d} ELSE @]
           v == [a EXCEPT !.reg[m] = new]
<1>1. Register(w, m, p) = v
  BY Zenon DEF Register, AcquireWatch
<1>2. WatchesCounted(u) /\ u.reg = [w.reg EXCEPT ![m] = NoReg]
      /\ \A F, h : WatchesLive(F, w, h) => WatchesLive(F, u, h)
  BY Unregistered
<1>3. d \in Folders /\ d \in disk.folders /\ FolderOf[p] \in Folders
  <2>1. FolderOf[p] \in Folders
    BY LinksAssumption
  <2> QED  BY <2>1, NearestThere, NearestExists
<1> HIDE DEF u, d
<1>w. /\ u \in [reg : [Linkables -> Registration], refs : [Folders -> Nat], alive : SUBSET Folders]
      /\ u.reg \in [Linkables -> Registration] /\ u.refs \in [Folders -> Nat] /\ u.alive \subseteq Folders
  BY <1>2 DEF WatchesCounted
<1>4. /\ v.reg = [u.reg EXCEPT ![m] = new]
      /\ v.refs = [u.refs EXCEPT ![d] = @ + 1]
      /\ v.alive = IF u.refs[d] = 0 THEN u.alive \cup {d} ELSE u.alive
      /\ v \in [reg : {v.reg}, refs : {v.refs}, alive : {v.alive}]
  BY <1>w
<1>5. new \in Registration /\ new.watched = d
  BY <1>3 DEF Registration
<1>6. u.reg[m] = NoReg
  <2>1. w.reg \in [Linkables -> Registration]
    BY DEF WatchesCounted
  <2> QED  BY <1>2, <2>1
<1>r. v.reg = [w.reg EXCEPT ![m] = new]
  BY <1>2, <1>4
<1> HIDE DEF new, a, v
<1>7. v.refs \in [Folders -> Int] /\ v.alive \subseteq Folders
  BY <1>w, <1>3, <1>4
<1>8. \A x \in Folders : v.refs[x] = u.refs[x] - (IF u.reg[m].watched = x THEN 1 ELSE 0)
                                               + (IF new.watched = x THEN 1 ELSE 0)
  BY <1>w, <1>3, <1>4, <1>5, <1>6, NowhereRegistered
<1>9. WatchesCounted(v)
  <2>1. v \in [reg : {v.reg}, refs : [Folders -> Int], alive : {v.alive}]
    BY <1>4, <1>7
  <2>2. v.reg = [u.reg EXCEPT ![m] = new]
    BY <1>4
  <2>3. PICK x, y : x = u /\ y = v
    OBVIOUS
  <2>4. WatchesCounted(x) /\ new \in Registration /\ y.reg = [x.reg EXCEPT ![m] = new] /\ y.alive \subseteq Folders
    BY <1>2, <1>5, <1>7, <2>2, <2>3
  <2>5. y \in [reg : {y.reg}, refs : [Folders -> Int], alive : {y.alive}]
    BY <2>1, <2>3
  <2>6. \A z \in Folders : y.refs[z] = x.refs[z] - (IF x.reg[m].watched = z THEN 1 ELSE 0)
                                                 + (IF new.watched = z THEN 1 ELSE 0)
    BY <1>8, <2>3
  <2> QED  BY <2>3, <2>4, <2>5, <2>6, Reregistered
<1>10. ASSUME NEW h, WatchesLive(disk.folders, u, h)  PROVE WatchesLive(disk.folders, v, h)
  BY <1>w, <1>3, <1>4, <1>10 DEF WatchesLive
<1> QED  BY <1>1, <1>2, <1>r, <1>9, <1>10 DEF new, d

\* Where the registrations are when the Models of models that have to move have moved.
LEMMA Moved ==
  ASSUME NEW w, WatchesCounted(w), NestedIn(disk.folders), NEW models \in SUBSET Linkables
  PROVE  LET v == MoveWatches(w, models)
         IN /\ WatchesCounted(v)
            /\ \A m \in Linkables : v.reg[m] = IF m \in models /\ Moves(w, m)
                                               THEN [w.reg[m] EXCEPT !.watched = Target(w, m)] ELSE w.reg[m]
            /\ \A d \in Folders : (\A m \in models : w.reg[m].watched # d) => v.refs[d] >= w.refs[d]
            /\ v.alive = {d \in Folders : v.refs[d] > 0 /\ (d \in w.alive \/ w.refs[d] = 0)}
            /\ \A h : WatchesLive(disk.folders, w, h) => WatchesLive(disk.folders, v, h)
<1> DEFINE moving == {m \in models : Moves(w, m)}
           into(d) == {m \in moving : Target(w, m) = d}
           outOf(d) == {m \in moving : w.reg[m].watched = d}
           reg == [m \in Linkables |-> IF m \in moving THEN [w.reg[m] EXCEPT !.watched = Target(w, m)] ELSE w.reg[m]]
           refs == [d \in Folders |-> w.refs[d] + Cardinality(into(d)) - Cardinality(outOf(d))]
           alive == {d \in Folders : refs[d] > 0 /\ (d \in w.alive \/ w.refs[d] = 0)}
           v == [reg |-> reg, refs |-> refs, alive |-> alive]
<1>0. MoveWatches(w, models) = v
  BY Zenon DEF MoveWatches
<1>w. /\ w.reg \in [Linkables -> Registration] /\ w.refs \in [Folders -> Nat] /\ w.alive \subseteq Folders
      /\ \A d \in Folders : w.refs[d] = Cardinality(Watching(w.reg, d))
  BY DEF WatchesCounted
<1>1. ASSUME NEW m \in moving
      PROVE  /\ m \in Linkables /\ w.reg[m] # NoReg /\ w.reg[m] \in [parent : Folders, watched : Folders]
             /\ Target(w, m) \in Folders /\ Target(w, m) \in disk.folders /\ Target(w, m) # w.reg[m].watched
  <2>1. m \in Linkables /\ w.reg[m] # NoReg /\ Target(w, m) # w.reg[m].watched
    BY DEF Moves
  <2>2. w.reg[m] \in [parent : Folders, watched : Folders]
    BY <1>w, <2>1 DEF Registration
  <2>3. Target(w, m) \in Folders /\ Target(w, m) \in disk.folders
    BY <2>2, NearestThere, NearestExists DEF Target
  <2> QED  BY <2>1, <2>2, <2>3
<1>2. ASSUME NEW m \in moving
      PROVE  [w.reg[m] EXCEPT !.watched = Target(w, m)] \in [parent : Folders, watched : Folders]
  BY <1>1
<1>3. reg \in [Linkables -> Registration]
  BY <1>w, <1>2 DEF Registration
<1>4. ASSUME NEW d \in Folders
      PROVE  /\ refs[d] = Cardinality(Watching(reg, d)) /\ refs[d] \in Nat
             /\ (\A m \in models : w.reg[m].watched # d) => refs[d] >= w.refs[d]
             /\ w.refs[d] = 0 /\ refs[d] > 0 => d \in disk.folders
  <2> DEFINE S == Watching(w.reg, d)
             O == outOf(d)
             I == into(d)
  <2>1. Watching(reg, d) = (S \ O) \cup I /\ (S \ O) \cap I = {} /\ S \cap O = O
    <3>1. \A m \in Linkables : reg[m].watched = IF m \in moving THEN Target(w, m) ELSE w.reg[m].watched
      BY <1>1
    <3>2. \A m \in moving : m \in Linkables /\ Target(w, m) # w.reg[m].watched
      BY <1>1
    <3> HIDE DEF reg, moving
    <3> QED  BY <3>1, <3>2 DEF Watching
  <2>2. IsFiniteSet(S) /\ IsFiniteSet(O) /\ IsFiniteSet(I)
    <3>1. S \in SUBSET Linkables /\ O \in SUBSET Linkables /\ I \in SUBSET Linkables
      BY DEF Watching
    <3> HIDE DEF S, O, I
    <3> QED  BY <3>1, FS_Subset, FoldersAssumption
  <2>3. \A m \in I : d \in disk.folders
    BY <1>1
  <2>4. (\A m \in models : w.reg[m].watched # d) => O = {}
    OBVIOUS
  <2>5. refs[d] = w.refs[d] + Cardinality(I) - Cardinality(O) /\ w.refs[d] = Cardinality(S) /\ w.refs[d] \in Nat
    BY <1>w
  <2> HIDE DEF S, O, I, refs, reg
  <2>6. IsFiniteSet(S \ O) /\ Cardinality(S \ O) = Cardinality(S) - Cardinality(O)
    <3>1. IsFiniteSet(S \ O) /\ Cardinality(S \ O) = Cardinality(S) - Cardinality(S \cap O)
      BY <2>2, FS_Difference
    <3> QED  BY <2>1, <3>1
  <2>7. IsFiniteSet((S \ O) \cup I) /\ Cardinality((S \ O) \cup I) = Cardinality(S \ O) + Cardinality(I)
    <3> DEFINE Q == S \ O
    <3>1. IsFiniteSet(Q) /\ Q \cap I = {}
      BY <2>1, <2>6
    <3> HIDE DEF Q
    <3>2. IsFiniteSet(Q \cup I) /\ Cardinality(Q \cup I) = Cardinality(Q) + Cardinality(I) - Cardinality(Q \cap I)
      BY <2>2, <3>1, FS_Union
    <3>3. Cardinality(Q) \in Nat /\ Cardinality(I) \in Nat
      BY <2>2, <3>1, FS_CardinalityType
    <3>4. Cardinality(Q \cap I) = 0
      BY <3>1, FS_EmptySet
    <3>5. IsFiniteSet(Q \cup I) /\ Cardinality(Q \cup I) = Cardinality(Q) + Cardinality(I)
      BY <3>2, <3>3, <3>4
    <3> QED  BY <3>5 DEF Q
  <2>8. /\ Cardinality(S) \in Nat /\ Cardinality(O) \in Nat /\ Cardinality(I) \in Nat
        /\ Cardinality((S \ O) \cup I) \in Nat
    BY <2>2, <2>7, FS_CardinalityType
  <2>9. refs[d] = Cardinality(Watching(reg, d)) /\ refs[d] \in Nat
    BY <2>1, <2>5, <2>6, <2>7, <2>8
  <2>10. O = {} => refs[d] >= w.refs[d]
    <3>1. O = {} => Cardinality(O) = 0
      BY FS_EmptySet
    <3> QED  BY <3>1, <2>5, <2>8
  <2>11. I = {} => refs[d] <= w.refs[d]
    <3>1. I = {} => Cardinality(I) = 0
      BY FS_EmptySet
    <3> QED  BY <3>1, <2>5, <2>8
  <2>12. w.refs[d] = 0 /\ refs[d] > 0 => d \in disk.folders
    BY <2>3, <2>5, <2>9, <2>11
  <2> QED  BY <2>4, <2>9, <2>10, <2>12
<1>5. refs \in [Folders -> Nat]
  BY <1>4
<1>r. \A m \in Linkables : reg[m] = IF m \in models /\ Moves(w, m)
                                    THEN [w.reg[m] EXCEPT !.watched = Target(w, m)] ELSE w.reg[m]
  OBVIOUS
<1> HIDE DEF reg, refs, moving
<1>6. WatchesCounted(v)
  BY <1>3, <1>4, <1>5 DEF WatchesCounted
<1>7. ASSUME NEW h, WatchesLive(disk.folders, w, h)  PROVE WatchesLive(disk.folders, v, h)
  BY <1>w, <1>4, <1>5, <1>7 DEF WatchesLive
<1>8. v.reg = reg /\ v.refs = refs /\ v.alive = {d \in Folders : refs[d] > 0 /\ (d \in w.alive \/ w.refs[d] = 0)}
  OBVIOUS
<1> HIDE DEF v
<1> QED  BY <1>0, <1>r, <1>4, <1>6, <1>7, <1>8

\* The events of ps handled: a directory of which they told is watched again, or nothing is left there.
LEMMA Reestablished ==
  ASSUME NEW w, WatchesCounted(w), NestedIn(disk.folders), NEW ps, NEW dd,
         dd = {d \in Folders : w.refs[d] > 0 /\ d \in ps}
  PROVE  LET v == Reestablish(w, dd)
         IN /\ WatchesCounted(v)
            /\ \A m \in Linkables : \/ v.reg[m] = w.reg[m]
                                    \/ w.reg[m].watched \in dd /\ v.reg[m] \in [parent : {w.reg[m].parent}, watched : Folders]
            /\ \A h : WatchesLive(disk.folders, w, h) => WatchesLive(disk.folders, v, h \ ps)
<1> DEFINE gone == dd \ disk.folders
           models == {m \in Linkables : w.reg[m].watched \in gone}
           u == MoveWatches(w, models)
           v == [u EXCEPT !.alive = @ \cup (dd \ gone)]
<1>0. Reestablish(w, dd) = v
  BY Zenon DEF Reestablish
<1>1. /\ WatchesCounted(u)
      /\ \A m \in Linkables : u.reg[m] = IF m \in models /\ Moves(w, m)
                                         THEN [w.reg[m] EXCEPT !.watched = Target(w, m)] ELSE w.reg[m]
      /\ \A d \in Folders : (\A m \in models : w.reg[m].watched # d) => u.refs[d] >= w.refs[d]
      /\ u.alive = {d \in Folders : u.refs[d] > 0 /\ (d \in w.alive \/ w.refs[d] = 0)}
      /\ \A h : WatchesLive(disk.folders, w, h) => WatchesLive(disk.folders, u, h)
  <2>1. models \in SUBSET Linkables
    OBVIOUS
  <2> HIDE DEF models
  <2> QED  BY <2>1, Moved
<1>w. /\ w.reg \in [Linkables -> Registration] /\ w.refs \in [Folders -> Nat]
      /\ u.reg \in [Linkables -> Registration] /\ u.refs \in [Folders -> Nat] /\ u.alive \subseteq Folders
      /\ u \in [reg : [Linkables -> Registration], refs : [Folders -> Nat], alive : SUBSET Folders]
      /\ \A d \in Folders : u.refs[d] = Cardinality(Watching(u.reg, d))
  BY <1>1 DEF WatchesCounted
<1>2. ASSUME NEW m \in models
      PROVE  /\ m \in Linkables /\ Target(w, m) \in disk.folders /\ Target(w, m) \in Folders
             /\ w.reg[m] \in [parent : Folders, watched : Folders]
             /\ Moves(w, m) /\ u.reg[m] = [w.reg[m] EXCEPT !.watched = Target(w, m)]
  <2>1. m \in Linkables /\ w.reg[m].watched \in Folders /\ w.reg[m].watched \notin disk.folders
    OBVIOUS
  <2>2. w.reg[m] # NoReg /\ w.reg[m] \in [parent : Folders, watched : Folders]
    BY <1>w, <2>1, NowhereRegistered DEF Registration
  <2>3. Target(w, m) \in Folders /\ Target(w, m) \in disk.folders
    BY <2>2, NearestThere, NearestExists DEF Target
  <2>4. Moves(w, m)
    BY <2>1, <2>2, <2>3 DEF Moves
  <2> QED  BY <2>1, <2>2, <2>3, <2>4, <1>1
<1>3. \A m \in Linkables : \/ u.reg[m] = w.reg[m]
                           \/ w.reg[m].watched \in dd /\ u.reg[m] \in [parent : {w.reg[m].parent}, watched : Folders]
  <2> TAKE m \in Linkables
  <2>1. CASE m \in models
    <3>1. w.reg[m].watched \in dd
      BY <2>1
    <3> HIDE DEF models, u
    <3>2. u.reg[m] \in [parent : {w.reg[m].parent}, watched : Folders]
      BY <2>1, <1>2
    <3> QED  BY <3>1, <3>2
  <2>2. CASE m \notin models
    <3> HIDE DEF models, u
    <3> QED  BY <2>2, <1>1
  <2> QED  BY <2>1, <2>2
\* All who were in a directory that is gone have left, for one that is there.
<1>4. ASSUME NEW d \in gone  PROVE u.refs[d] = 0
  <2>1. ASSUME NEW m \in Linkables  PROVE u.reg[m].watched # d
    <3>1. CASE m \in models
      <4>1. u.reg[m].watched = Target(w, m) /\ Target(w, m) \in disk.folders
        BY <3>1, <1>2
      <4> QED  BY <4>1
    <3>2. CASE m \notin models
      <4>1. w.reg[m].watched # d
        BY <3>2
      <4>2. u.reg[m] = w.reg[m]
        BY <3>2, <1>1
      <4> QED  BY <4>1, <4>2
    <3> QED  BY <3>1, <3>2
  <2>2. Watching(u.reg, d) = {}
    BY <2>1 DEF Watching
  <2>3. Cardinality(Watching(u.reg, d)) = 0
    BY <2>2, FS_EmptySet
  <2>4. d \in Folders
    OBVIOUS
  <2> QED  BY <1>w, <2>3, <2>4
<1>5. ASSUME NEW d \in dd \ gone  PROVE u.refs[d] > 0 /\ d \in disk.folders
  <2>1. d \in Folders /\ w.refs[d] > 0 /\ d \in disk.folders /\ \A m \in models : w.reg[m].watched # d
    OBVIOUS
  <2> HIDE DEF u, models
  <2> QED  BY <2>1, <1>1, <1>w
<1>6. v.reg = u.reg /\ v.refs = u.refs /\ v.alive = u.alive \cup (dd \ gone)
  BY <1>w
<1>7. WatchesCounted(v)
  <2>1. dd \subseteq Folders
    OBVIOUS
  <2>2. v \in [reg : [Linkables -> Registration], refs : [Folders -> Nat], alive : SUBSET Folders]
    BY <1>w, <2>1
  <2> HIDE DEF u, v
  <2> QED  BY <1>w, <1>6, <2>2 DEF WatchesCounted
<1>8. ASSUME NEW h, WatchesLive(disk.folders, w, h)  PROVE WatchesLive(disk.folders, v, h \ ps)
  <2>1. WatchesLive(disk.folders, u, h)
    BY <1>8, <1>1
  <2> SUFFICES ASSUME NEW d \in Folders
               PROVE  /\ d \in v.alive => d \in disk.folders /\ v.refs[d] > 0
                      /\ v.refs[d] > 0 => d \in v.alive \cup (h \ ps)
    BY Zenon DEF WatchesLive
  <2>2. /\ d \in u.alive => d \in disk.folders /\ u.refs[d] > 0
        /\ u.refs[d] > 0 => d \in u.alive \cup h
    BY <2>1, Zenon DEF WatchesLive
  <2>3. d \in v.alive => d \in disk.folders /\ v.refs[d] > 0
    <3> HIDE DEF u, v, gone
    <3> QED  BY <1>5, <1>6, <2>2
  <2>4. CASE d \in ps /\ w.refs[d] > 0
    <3>1. d \in dd
      BY <2>4
    <3> HIDE DEF u, v
    <3>2. u.refs[d] > 0 => d \in dd \ gone
      BY <3>1, <1>4, <1>w
    <3> QED  BY <3>2, <1>6, <2>3
  <2>5. CASE w.refs[d] = 0
    <3> HIDE DEF u, v
    <3>1. u.refs[d] > 0 => d \in u.alive
      BY <2>5, <1>1
    <3> QED  BY <3>1, <1>6, <2>3
  <2>6. CASE d \notin ps
    <3> HIDE DEF u, v
    <3> QED  BY <2>6, <2>2, <2>3, <1>6
  <2>7. w.refs[d] > 0 \/ w.refs[d] = 0
    <3>1. w.refs \in [Folders -> Nat]
      BY <1>w
    <3>2. w.refs[d] \in Nat
      BY <3>1
    <3> QED  BY <3>2
  <2> QED  BY <2>4, <2>5, <2>6, <2>7
<1> HIDE DEF u, v
<1> QED  BY <1>0, <1>3, <1>6, <1>7, <1>8

(***************************************************************************)
(* The invariant.                                                          *)
(***************************************************************************)

\* A Model's watch is not where it should be, with the folders F.
Strayed(F, r) == r # NoReg /\ NearestIn(F, r.parent) # r.watched

\* UpToDate, for a row on a disk.
Fresh(d, row) ==
    LET s == d.file[row.path]
    IN IF s = 0 THEN row.state = "missing"
       ELSE /\ row.observed = s
            /\ IF row.state = "ok" THEN row.current = d.made[s].content
               ELSE row.state = "invalid" /\ d.made[s].content \in Unsuited

\* What a check under way has found still holds, and is what it will leave in the row.
Agrees(d, row, c) ==
    LET s == d.file[row.path]
    IN /\ c.pc \in {"stat", "read", "apply"} => row = c.link
       /\ c.pc = "read" => s = c.stamp
       /\ c.pc = "apply" => \/ c.found = "missing" /\ s = 0 /\ c.stamp = 0
                            \/ /\ c.found \in {"ok", "invalid", "new"} /\ s # 0 /\ c.stamp = s
                               /\ c.found = "ok" => row.current = d.made[s].content
                               /\ c.found = "invalid" => d.made[s].content \in Unsuited
       /\ c.pc = "follow" => Fresh(d, row)

\* A check of m is still to begin: it waits, or the event, command or pass that asks for it does.
Promised(m) ==
    \/ watches.reg[m] # NoReg /\ \E p \in heard : Touches(p, watches.reg[m].watched)
    \/ due[m].waiting > 0
    \/ \E c \in Callers : call[c].pc = "committed" /\ call[c].model = m
    \/ pass.pc = "list"
    \/ pass.pc = "register" /\ pass.listed[m] # Nothing

\* m is still to be registered for the path of its row.
Awaited(m) ==
    \/ \E c \in Callers : call[c].pc = "committed" /\ call[c].model = m /\ call[c].path = linkRow[m].path
    \/ pass.pc = "list"
    \/ pass.pc = "register" /\ m \in pass.left

Placed(m) == Awaited(m) \/ (watches.reg[m] # NoReg /\ watches.reg[m].parent = FolderOf[linkRow[m].path])

\* Without a check to come, the row is right, or the check under way will make it so; a check
\* that finds the watch astray asks for another.
Sound(d, row, r, c) == IF c.pc = "off" THEN ~Strayed(d.folders, r) /\ Fresh(d, row)
                       ELSE Strayed(d.folders, r) \/ Agrees(d, row, c)
Tended(m) == \/ Promised(m)
             \/ check[m].pc = "off" /\ m \in unchecked
             \/ Sound(disk, linkRow[m], watches.reg[m], check[m])

Released(m) == watches.reg[m] = NoReg \/ \E c \in Callers : call[c].pc = "ended" /\ call[c].model = m

WellFollowed(m) == IF Following(m) THEN Placed(m) /\ Tended(m) ELSE Released(m)

PassTyped == pass \in [pc : {"list", "register", "done"}, left : SUBSET Linkables,
                       listed : [Linkables -> Paths \cup {Nothing}]]

\* Checks that are queued wait, and the pass knows the paths of the Models it has to register.
ChecksKept ==
    /\ due \in [Linkables -> [queued : BOOLEAN, waiting : Nat, retries : Int]]
    /\ PassTyped
    /\ \A m \in Linkables : due[m].queued => due[m].waiting > 0
    /\ \A m \in pass.left : pass.listed[m] # Nothing

WatchesKept == WatchesCounted(watches) /\ NestedIn(disk.folders) /\ WatchesLive(disk.folders, watches, heard)

\* Only a Model that was not ended since is linked by a command, and what ended stays so.
EndsKept == \A c \in Callers :
    /\ call[c].pc \in {"staging", "staged"} /\ c \notin outdated => linkRow[call[c].model].mode \in {"linked", "absent"}
    /\ call[c].pc = "ended" => linkRow[call[c].model].mode \in {"managed", "deleted"}

FollowInv == /\ TruthInv /\ ChecksKept /\ WatchesKept /\ EndsKept
             /\ \A m \in Linkables \ misfollowed : WellFollowed(m)

(***************************************************************************)
(* The checks that wait, and the pass.                                     *)
(***************************************************************************)
Waits == [queued : BOOLEAN, waiting : Nat, retries : Int]

LEMMA Scheduled ==
  ASSUME ChecksKept, NEW models \in SUBSET Linkables, Schedule(models)
  PROVE  /\ due' \in [Linkables -> Waits]
         /\ \A m \in Linkables : /\ due'[m].queued => due'[m].waiting > 0
                                 /\ due[m].waiting > 0 \/ m \in models => due'[m].waiting > 0
<1>1. ASSUME NEW m \in Linkables
      PROVE  LET new == IF m \in models /\ ~due[m].queued
                        THEN [due[m] EXCEPT !.queued = TRUE, !.waiting = @ + 1] ELSE due[m]
             IN /\ new \in Waits /\ (new.queued => new.waiting > 0)
                /\ due[m].waiting > 0 \/ m \in models => new.waiting > 0
  <2>1. due[m] \in Waits /\ (due[m].queued => due[m].waiting > 0)
    BY DEF ChecksKept, Waits
  <2>2. PICK t : t = due[m]
    OBVIOUS
  <2> DEFINE new == [t EXCEPT !.queued = TRUE, !.waiting = @ + 1]
  <2>3. new \in Waits /\ new.waiting > 0
    <3> DEFINE u == [t EXCEPT !.queued = TRUE]
    <3>1. u \in Waits /\ u.waiting \in Nat
      BY <2>1, <2>2 DEF Waits
    <3>2. new = [u EXCEPT !.waiting = t.waiting + 1] /\ t.waiting \in Nat
      BY <2>1, <2>2 DEF Waits
    <3> HIDE DEF u, new
    <3> QED  BY <3>1, <3>2 DEF Waits
  <2> HIDE DEF new
  <2>4. (IF m \in models /\ ~due[m].queued THEN [due[m] EXCEPT !.queued = TRUE, !.waiting = @ + 1] ELSE due[m])
          = IF m \in models /\ ~t.queued THEN new ELSE t
    BY <2>2, Zenon DEF new
  <2> QED  BY <2>1, <2>2, <2>3, <2>4
<1>2. due' = [m \in Linkables |-> IF m \in models /\ ~due[m].queued
                                  THEN [due[m] EXCEPT !.queued = TRUE, !.waiting = @ + 1] ELSE due[m]]
  BY Zenon DEF Schedule
<1> QED  BY <1>1, <1>2

\* The check of each of models is asked for once more.
LEMMA AskedFor ==
  ASSUME ChecksKept, NEW models,
         due' = [m \in Linkables |-> IF m \in models THEN [due[m] EXCEPT !.waiting = @ + 1] ELSE due[m]]
  PROVE  /\ due' \in [Linkables -> Waits]
         /\ \A m \in Linkables : /\ due'[m].queued => due'[m].waiting > 0
                                 /\ due[m].waiting > 0 \/ m \in models => due'[m].waiting > 0
<1>1. ASSUME NEW m \in Linkables
      PROVE  LET new == [due[m] EXCEPT !.waiting = @ + 1]
             IN /\ due[m] \in Waits /\ (due[m].queued => due[m].waiting > 0)
                /\ new \in Waits /\ new.waiting > 0
  BY DEF ChecksKept, Waits
<1> QED  BY <1>1

(***************************************************************************)
(* What a step leaves alone.                                               *)
(***************************************************************************)
LEMMA NoPromiseLost ==
  ASSUME NEW m \in Linkables, Promised(m),
         \/ due'[m].waiting > 0
         \/ /\ heard \subseteq heard' /\ watches'.reg[m] = watches.reg[m]
            /\ due[m].waiting > 0 => due'[m].waiting > 0
            /\ UNCHANGED pass
            /\ \A c \in Callers : call[c].pc = "committed" /\ call[c].model = m => call'[c] = call[c]
  PROVE  Promised(m)'
BY DEF Promised

\* m's registration and row as they were, and no command of m further.
LEMMA PlaceKept ==
  ASSUME NEW m \in Linkables, WellFollowed(m),
         linkRow'[m] = linkRow[m], watches'.reg[m] = watches.reg[m], UNCHANGED pass,
         \A c \in Callers : call[c].pc \in {"committed", "ended"} /\ call[c].model = m => call'[c] = call[c]
  PROVE  /\ Following(m)' = Following(m) /\ (Following(m) => Placed(m)' /\ Tended(m)) /\ (~Following(m) => Released(m)')
<1>1. Following(m)' = Following(m)
  BY DEF Following
<1>2. ASSUME Following(m)  PROVE Placed(m)' /\ Tended(m)
  <2>1. Placed(m) /\ Tended(m)
    BY <1>2 DEF WellFollowed
  <2>2. Awaited(m) => Awaited(m)'
    BY DEF Awaited
  <2> QED  BY <2>1, <2>2 DEF Placed
<1>3. ASSUME ~Following(m)  PROVE Released(m)'
  BY <1>3 DEF WellFollowed, Released
<1> QED  BY <1>1, <1>2, <1>3

\* m's check too, and nothing of m on disk.
LEMMA Steady ==
  ASSUME NEW m \in Linkables, WellFollowed(m), Promised(m) => Promised(m)',
         linkRow'[m] = linkRow[m], watches'.reg[m] = watches.reg[m], check'[m] = check[m], UNCHANGED <<disk, pass>>,
         m \in unchecked => m \in unchecked',
         \A c \in Callers : call[c].pc \in {"committed", "ended"} /\ call[c].model = m => call'[c] = call[c]
  PROVE  WellFollowed(m)'
<1>1. /\ Following(m)' = Following(m) /\ (Following(m) => Placed(m)' /\ Tended(m)) /\ (~Following(m) => Released(m)')
  BY PlaceKept
<1>2. Tended(m) => Tended(m)'
  BY DEF Tended
<1> QED  BY <1>1, <1>2 DEF WellFollowed

\* The shares of the invariant of which a step writes nothing.
LEMMA SharesKept ==
  ASSUME FollowInv
  PROVE  /\ UNCHANGED <<due, pass>> => ChecksKept'
         /\ UNCHANGED <<disk, watches, heard>> => WatchesKept'
         /\ UNCHANGED <<linkRow, call, outdated>> => EndsKept'
BY DEF FollowInv, ChecksKept, PassTyped, WatchesKept, EndsKept

(***************************************************************************)
(* A batch of events.                                                      *)
(***************************************************************************)
LEMMA HandleFollows ==
  ASSUME FollowInv, NEW paths \in SUBSET heard, Handle(paths)
  PROVE  ChecksKept' /\ WatchesKept' /\ EndsKept' /\ \A m \in Linkables \ misfollowed' : WellFollowed(m)'
<1> DEFINE touched == {d \in Folders : watches.refs[d] > 0 /\ \E p \in paths : Touches(p, d)}
           dd == {d \in Folders : watches.refs[d] > 0 /\ d \in paths}
           models == {m \in Linkables : watches.reg[m].watched \in touched}
<1>1. /\ heard' = heard \ paths /\ watches' = Reestablish(watches, touched \cap paths) /\ Schedule(models)
      /\ UNCHANGED <<disk, linkRow, check, call, outdated, pass, misfollowed, unchecked>>
  BY Zenon DEF Handle
<1>2. touched \cap paths = dd
  BY DEF Touches
<1>3. WatchesCounted(watches) /\ NestedIn(disk.folders) /\ WatchesLive(disk.folders, watches, heard) /\ ChecksKept
  BY DEF FollowInv, WatchesKept
<1>4. models \in SUBSET Linkables
  OBVIOUS
<1>5. /\ WatchesCounted(watches')
      /\ \A m \in Linkables : \/ watches'.reg[m] = watches.reg[m]
                              \/ /\ watches.reg[m].watched \in dd
                                 /\ watches'.reg[m] \in [parent : {watches.reg[m].parent}, watched : Folders]
      /\ WatchesLive(disk.folders, watches', heard')
  <2>1. dd = {d \in Folders : watches.refs[d] > 0 /\ d \in paths}
    OBVIOUS
  <2>2. watches' = Reestablish(watches, dd)
    BY <1>1, <1>2
  <2> HIDE DEF dd, touched, models
  <2>3. PICK w : w = watches
    OBVIOUS
  <2>4. /\ WatchesCounted(Reestablish(w, dd))
        /\ \A m \in Linkables : \/ Reestablish(w, dd).reg[m] = w.reg[m]
                                \/ /\ w.reg[m].watched \in dd
                                   /\ Reestablish(w, dd).reg[m] \in [parent : {w.reg[m].parent}, watched : Folders]
        /\ \A h : WatchesLive(disk.folders, w, h) => WatchesLive(disk.folders, Reestablish(w, dd), h \ paths)
    <3>1. WatchesCounted(w) /\ NestedIn(disk.folders) /\ dd = {d \in Folders : w.refs[d] > 0 /\ d \in paths}
      BY <1>3, <2>1, <2>3
    <3> QED  BY <3>1, Reestablished, Zenon
  <2> QED  BY <1>1, <1>3, <2>2, <2>3, <2>4
<1>6. /\ due' \in [Linkables -> Waits]
      /\ \A m \in Linkables : /\ due'[m].queued => due'[m].waiting > 0
                              /\ due[m].waiting > 0 \/ m \in models => due'[m].waiting > 0
  <2> HIDE DEF models
  <2> QED  BY <1>1, <1>3, <1>4, Scheduled
<1>7. WatchesKept'
  BY <1>1, <1>3, <1>5 DEF WatchesKept
<1>8. ChecksKept'
  BY <1>1, <1>3, <1>6 DEF ChecksKept, PassTyped, Waits
<1>9. EndsKept'
  BY <1>1, SharesKept
<1>10. ASSUME NEW m \in Linkables \ misfollowed'  PROVE WellFollowed(m)'
  <2>1. WellFollowed(m)
    BY <1>1 DEF FollowInv
  <2>2. CASE watches'.reg[m] = watches.reg[m]
    <3>1. CASE m \in models
      <4>1. Promised(m)'
        BY <1>6, <3>1 DEF Promised
      <4> QED  BY <1>1, <2>1, <2>2, <4>1, Steady
    <3>2. CASE m \notin models
      <4>1. Promised(m) => Promised(m)'
        <5>1. watches.reg[m] # NoReg => watches.reg[m].watched \in Folders /\ watches.refs[watches.reg[m].watched] > 0
          BY <1>3, WatchedCounts
        <5>2. watches.reg[m] # NoReg => \A p \in paths : ~Touches(p, watches.reg[m].watched)
          BY <3>2, <5>1
        <5> HIDE DEF models
        <5> QED  BY <1>1, <1>6, <2>2, <5>2 DEF Promised
      <4> QED  BY <1>1, <2>1, <2>2, <4>1, Steady
    <3> QED  BY <3>1, <3>2
  <2>3. CASE watches'.reg[m] # watches.reg[m]
    <3>1. /\ watches.reg[m].watched \in dd
          /\ watches'.reg[m] \in [parent : {watches.reg[m].parent}, watched : Folders]
      BY <1>5, <2>3
    <3>2. watches.reg[m] # NoReg /\ watches'.reg[m] # NoReg /\ watches'.reg[m].parent = watches.reg[m].parent
      <4>1. watches.reg[m].watched \in Folders /\ watches'.reg[m].watched \in Folders
        BY <3>1
      <4>2. watches.reg[m] # NoReg /\ watches'.reg[m] # NoReg
        BY <4>1, NowhereRegistered
      <4> QED  BY <3>1, <4>2
    <3>3. Promised(m)'
      <4>1. m \in models
        BY <1>2, <3>1
      <4> QED  BY <1>6, <4>1 DEF Promised
    <3>4. Following(m)' = Following(m) /\ (Placed(m) => Placed(m)') /\ (Released(m) => Released(m)')
      BY <1>1, <3>2 DEF Following, Placed, Awaited, Released
    <3> QED  BY <2>1, <3>3, <3>4 DEF WellFollowed, Tended
  <2> QED  BY <2>2, <2>3
<1> QED  BY <1>7, <1>8, <1>9, <1>10

(***************************************************************************)
(* The disk.                                                               *)
(***************************************************************************)
LEMMA StillFresh ==
  ASSUME DiskTyped, Grows, NEW row, row.path \in Paths, disk'.file[row.path] = disk.file[row.path]
  PROVE  /\ Fresh(disk, row) => Fresh(disk', row)
         /\ \A c : Agrees(disk, row, c) => Agrees(disk', row, c)
<1> DEFINE s == disk.file[row.path]
<1>1. s # 0 => disk'.made[s] = disk.made[s]
  BY DEF DiskTyped, Grows
<1>2. Fresh(disk, row) => Fresh(disk', row)
  BY <1>1, Zenon DEF Fresh
<1>3. ASSUME NEW c, Agrees(disk, row, c)  PROVE Agrees(disk', row, c)
  BY <1>1, <1>2, <1>3 DEF Agrees
<1> QED  BY <1>2, <1>3

\* What a change on disk does to a Model that is registered for its path and has no check to come:
\* it is told, or nothing of its changed, or its watch is astray before and after.
DiskShifts(m) ==
    \/ Promised(m)'
    \/ /\ disk'.file[linkRow[m].path] = disk.file[linkRow[m].path]
       /\ Strayed(disk'.folders, watches.reg[m]) = Strayed(disk.folders, watches.reg[m])
    \/ Strayed(disk'.folders, watches.reg[m]) /\ Strayed(disk.folders, watches.reg[m])

LEMMA Watched ==
  ASSUME WatchesKept, NEW m \in Linkables, watches.reg[m] # NoReg, ~Promised(m)
  PROVE  LET w == watches.reg[m].watched
         IN w \in Folders /\ watches.reg[m].parent \in Folders /\ w \in watches.alive /\ w \in disk.folders
<1>1. watches.reg[m].watched \in Folders /\ watches.reg[m].parent \in Folders /\ watches.refs[watches.reg[m].watched] > 0
  BY WatchedCounts DEF WatchesKept
<1>2. watches.reg[m].watched \notin heard
  BY DEF Promised, Touches
<1> QED  BY <1>1, <1>2 DEF WatchesKept, WatchesLive

\* An event that touches what m watches is a promise.
LEMMA Told ==
  ASSUME NEW m \in Linkables, watches.reg[m] # NoReg, watches'.reg[m] = watches.reg[m],
         NEW x, Touches(x, watches.reg[m].watched), heard' = heard \cup {x}
  PROVE  Promised(m)'
BY DEF Promised

LEMMA FileShifts ==
  ASSUME FollowInv, NEW p \in Paths, ChangeFile(p),
         NEW m \in Linkables, linkRow[m].path \in Paths, watches.reg[m] # NoReg,
         watches.reg[m].parent = FolderOf[linkRow[m].path], ~Promised(m)
  PROVE  DiskShifts(m)
<1> DEFINE w == watches.reg[m].watched
           t == watches.reg[m].parent
<1>1. w \in Folders /\ t \in Folders /\ w \in watches.alive /\ NestedIn(disk.folders)
  BY Watched DEF FollowInv, WatchesKept
<1>2. FolderOf[p] \in disk.folders /\ Signal(p, {FolderOf[p]}) /\ UNCHANGED watches /\ disk'.folders = disk.folders
  BY DEF ChangeFile, FollowInv, TruthInv, LinksTyped, DiskTyped
<1>3. CASE p # linkRow[m].path
  <2>1. disk'.file[linkRow[m].path] = disk.file[linkRow[m].path]
    BY <1>3 DEF ChangeFile, FollowInv, TruthInv, LinksTyped, DiskTyped
  <2> QED  BY <1>2, <2>1 DEF DiskShifts
<1>4. CASE p = linkRow[m].path
  <2>1. NearestIn(disk.folders, t) = t
    BY <1>1, <1>2, <1>4, NearestThere
  <2>2. CASE w = t
    <3>1. heard' = heard \cup {p}
      BY <1>1, <1>2, <1>4, <2>2 DEF Signal
    <3>2. Touches(p, w)
      BY <1>4, <2>2 DEF Touches
    <3>3. Promised(m)'
      BY <1>2, <3>1, <3>2, Told
    <3> QED  BY <3>3 DEF DiskShifts
  <2>3. CASE w # t
    BY <1>2, <2>1, <2>3 DEF DiskShifts, Strayed
  <2> QED  BY <2>2, <2>3
<1> QED  BY <1>3, <1>4

LEMMA RemovalShifts ==
  ASSUME FollowInv, NEW x \in Folders, RemoveFolder(x),
         NEW m \in Linkables, linkRow[m].path \in Paths, watches.reg[m] # NoReg,
         watches.reg[m].parent = FolderOf[linkRow[m].path], ~Promised(m)
  PROVE  DiskShifts(m)
<1> DEFINE w == watches.reg[m].watched
           t == watches.reg[m].parent
           F == disk.folders
<1>1. w \in Folders /\ t \in Folders /\ w \in watches.alive /\ w \in F /\ NestedIn(F)
  BY Watched DEF FollowInv, WatchesKept
<1>2. /\ x \in F /\ Len(Ancestors[x]) > 1 /\ Inside(x) \cap F = {} /\ Signal(x, {x} \cup Around(x))
      /\ watches' = [watches EXCEPT !.alive = @ \ {x}]
      /\ disk' = [disk EXCEPT !.folders = @ \ {x}, !.file = [p \in Paths |-> IF FolderOf[p] = x THEN 0 ELSE @[p]]]
  BY Zenon DEF RemoveFolder
<1>3. disk'.folders = F \ {x} /\ disk'.file = [p \in Paths |-> IF FolderOf[p] = x THEN 0 ELSE disk.file[p]]
  BY <1>2 DEF FollowInv, TruthInv, LinksTyped, DiskTyped
<1>4. watches'.reg = watches.reg
  BY <1>2 DEF FollowInv, WatchesKept, WatchesCounted
<1>5. NestedIn(F \ {x}) /\ \/ NearestIn(F \ {x}, t) = NearestIn(F, t)
                           \/ NearestIn(F, t) = x /\ NearestIn(F \ {x}, t) = Ancestors[x][2]
  BY <1>1, <1>2, NearestWithout
<1>6. CASE w \in {x} \cup Around(x)
  <2>1. heard' = heard \cup {x}
    BY <1>1, <1>2, <1>6 DEF Signal
  <2>2. Touches(x, w)
    BY <1>2, <1>6 DEF Touches, Around
  <2>3. Promised(m)'
    BY <1>4, <2>1, <2>2, Told
  <2> QED  BY <2>3 DEF DiskShifts
<1>7. CASE w \notin {x} \cup Around(x)
  <2>1. w # x /\ w # Ancestors[x][2]
    BY <1>7 DEF Around
  <2>2. CASE NearestIn(F \ {x}, t) = NearestIn(F, t)
    <3>1. t # x
      <4>1. t \in F => NearestIn(F, t) = t
        BY <1>1, NearestThere
      <4>2. NearestIn(F \ {x}, t) \in F \ {x}
        BY <1>1, <1>5, NearestThere
      <4> QED  BY <1>2, <2>2, <4>1, <4>2
    <3>2. disk'.file[linkRow[m].path] = disk.file[linkRow[m].path]
      BY <1>3, <3>1
    <3> QED  BY <1>3, <2>2, <3>2 DEF DiskShifts, Strayed
  <2>3. CASE NearestIn(F, t) = x /\ NearestIn(F \ {x}, t) = Ancestors[x][2]
    BY <1>3, <2>1, <2>3 DEF DiskShifts, Strayed
  <2> QED  BY <1>5, <2>2, <2>3
<1> QED  BY <1>6, <1>7

LEMMA ReturnShifts ==
  ASSUME FollowInv, NEW x \in Folders, MakeFolder(x),
         NEW m \in Linkables, linkRow[m].path \in Paths, watches.reg[m] # NoReg,
         watches.reg[m].parent = FolderOf[linkRow[m].path], ~Promised(m)
  PROVE  DiskShifts(m)
<1> DEFINE w == watches.reg[m].watched
           t == watches.reg[m].parent
           F == disk.folders
<1>1. w \in Folders /\ t \in Folders /\ w \in watches.alive /\ w \in F /\ NestedIn(F)
  BY Watched DEF FollowInv, WatchesKept
<1>2. /\ x \notin F /\ Around(x) \subseteq F /\ Signal(x, Around(x)) /\ UNCHANGED watches
  BY Zenon DEF MakeFolder
<1>3. /\ disk'.folders = F \cup {x}
      /\ \A p \in Paths : FolderOf[p] # x => disk'.file[p] = disk.file[p]
  <2> DEFINE last(p) == Max({0} \cup {s \in DOMAIN disk.made : disk.made[s].path = p})
  <2>1. PICK back \in SUBSET {p \in Paths : FolderOf[p] = x} :
             disk' = [disk EXCEPT !.folders = @ \cup {x},
                                  !.file = [p \in Paths |-> IF p \in back THEN last(p) ELSE @[p]]]
    BY Zenon DEF MakeFolder
  <2> HIDE DEF last
  <2>2. /\ disk'.folders = F \cup {x}
        /\ disk'.file = [p \in Paths |-> IF p \in back THEN last(p) ELSE disk.file[p]]
    BY <2>1 DEF FollowInv, TruthInv, LinksTyped, DiskTyped
  <2> QED  BY <2>2
<1>5. /\ Len(Ancestors[x]) > 1 /\ NestedIn(F \cup {x})
      /\ \/ NearestIn(F \cup {x}, t) = NearestIn(F, t)
         \/ NearestIn(F, t) = Ancestors[x][2] /\ NearestIn(F \cup {x}, t) = x
  <2>1. PICK G, y : G = F /\ y = t
    OBVIOUS
  <2>2. NestedIn(G) /\ Around(x) \subseteq G /\ x \notin G /\ y \in Folders
    BY <1>1, <1>2, <2>1
  <2>3. /\ Len(Ancestors[x]) > 1 /\ NestedIn(G \cup {x})
        /\ \/ NearestIn(G \cup {x}, y) = NearestIn(G, y)
           \/ NearestIn(G, y) = Ancestors[x][2] /\ NearestIn(G \cup {x}, y) = x
    BY <2>2, NearestWith
  <2> QED  BY <2>1, <2>3
<1>6. CASE w \in Around(x)
  <2>1. heard' = heard \cup {x}
    BY <1>1, <1>2, <1>6 DEF Signal
  <2>2. Touches(x, w)
    BY <1>5, <1>6 DEF Touches, Around
  <2>3. Promised(m)'
    BY <1>2, <2>1, <2>2, Told
  <2> QED  BY <2>3 DEF DiskShifts
<1>7. CASE w \notin Around(x)
  <2>1. w # x /\ w # Ancestors[x][2]
    BY <1>1, <1>2, <1>7 DEF Around
  <2>2. CASE NearestIn(F \cup {x}, t) = NearestIn(F, t)
    <3>1. t # x
      <4>1. t \in F \cup {x} => NearestIn(F \cup {x}, t) = t
        BY <1>1, <1>5, NearestThere
      <4>2. NearestIn(F, t) \in F
        BY <1>1, NearestThere
      <4> QED  BY <1>2, <2>2, <4>1, <4>2
    <3>2. disk'.file[linkRow[m].path] = disk.file[linkRow[m].path]
      BY <1>3, <3>1
    <3> QED  BY <1>3, <2>2, <3>2 DEF DiskShifts, Strayed
  <2>3. CASE NearestIn(F, t) = Ancestors[x][2] /\ NearestIn(F \cup {x}, t) = x
    BY <1>3, <2>1, <2>3 DEF DiskShifts, Strayed
  <2> QED  BY <1>5, <2>2, <2>3
<1> QED  BY <1>6, <1>7

LEMMA DiskFollows ==
  ASSUME FollowInv, DiskStep
  PROVE  ChecksKept' /\ WatchesKept' /\ EndsKept' /\ \A m \in Linkables \ misfollowed' : WellFollowed(m)'
<1>1. PICK p \in Paths, x \in Folders : ChangeFile(p) \/ RemoveFolder(x) \/ MakeFolder(x)
  BY DEF DiskStep
<1>2. UNCHANGED <<linkRow, due, check, call, outdated, pass, misfollowed, unchecked>>
  BY <1>1 DEF ChangeFile, RemoveFolder, MakeFolder, Unmoved
<1>3. watches'.reg = watches.reg
  BY <1>1 DEF ChangeFile, RemoveFolder, MakeFolder, FollowInv, WatchesKept, WatchesCounted
<1>4. heard \subseteq heard'
  BY <1>1, Zenon DEF ChangeFile, RemoveFolder, MakeFolder, Signal
<1>5. DiskTyped /\ Grows
  BY DiskGrows DEF LinksNext, FollowInv, TruthInv, LinksTyped
<1>6. ChecksKept' /\ EndsKept'
  BY <1>2, SharesKept
<1>7. WatchesKept'
  <2>1. WatchesCounted(watches) /\ NestedIn(disk.folders) /\ WatchesLive(disk.folders, watches, heard)
    BY DEF FollowInv, WatchesKept
  <2>2. CASE ChangeFile(p)
    <3>1. disk'.folders = disk.folders /\ UNCHANGED watches
      BY <2>2, <1>5 DEF ChangeFile, DiskTyped
    <3> QED  BY <1>4, <2>1, <3>1 DEF WatchesKept, WatchesLive
  <2>3. CASE RemoveFolder(x)
    <3>1. /\ x \in disk.folders /\ Len(Ancestors[x]) > 1 /\ Inside(x) \cap disk.folders = {}
          /\ Signal(x, {x} \cup Around(x)) /\ watches' = [watches EXCEPT !.alive = @ \ {x}]
          /\ disk'.folders = disk.folders \ {x}
      BY <2>3, <1>5 DEF RemoveFolder, DiskTyped
    <3>2. WatchesCounted(watches') /\ watches'.alive = watches.alive \ {x} /\ watches'.refs = watches.refs
      BY <2>1, <3>1 DEF WatchesCounted
    <3>3. NestedIn(disk.folders \ {x})
      BY <2>1, <3>1, NearestWithout
    <3>4. WatchesLive(disk.folders \ {x}, watches', heard')
      <4>1. x \in watches.alive => x \in heard'
        BY <3>1 DEF Signal
      <4> QED  BY <1>4, <2>1, <3>2, <4>1 DEF WatchesLive
    <3> QED  BY <3>1, <3>2, <3>3, <3>4 DEF WatchesKept
  <2>4. CASE MakeFolder(x)
    <3>1. x \notin disk.folders /\ Around(x) \subseteq disk.folders /\ UNCHANGED watches
      BY <2>4 DEF MakeFolder
    <3>2. disk'.folders = disk.folders \cup {x}
      <4> DEFINE last(y) == Max({0} \cup {s \in DOMAIN disk.made : disk.made[s].path = y})
      <4>1. PICK back \in SUBSET {y \in Paths : FolderOf[y] = x} :
                 disk' = [disk EXCEPT !.folders = @ \cup {x},
                                      !.file = [y \in Paths |-> IF y \in back THEN last(y) ELSE @[y]]]
        BY <2>4, Zenon DEF MakeFolder
      <4> HIDE DEF last
      <4> QED  BY <4>1, <1>5 DEF DiskTyped
    <3>3. NestedIn(disk.folders \cup {x})
      BY <2>1, <3>1, NearestWith
    <3>4. WatchesLive(disk.folders \cup {x}, watches', heard')
      BY <1>4, <2>1, <3>1 DEF WatchesLive
    <3> QED  BY <2>1, <3>1, <3>2, <3>3, <3>4 DEF WatchesKept
  <2> QED  BY <1>1, <2>2, <2>3, <2>4
<1>8. ASSUME NEW m \in Linkables \ misfollowed'  PROVE WellFollowed(m)'
  <2>1. WellFollowed(m)
    BY <1>2 DEF FollowInv
  <2>2. /\ Following(m)' = Following(m) /\ (Following(m) => Placed(m)' /\ Tended(m)) /\ (~Following(m) => Released(m)')
    BY <1>2, <1>3, <2>1, PlaceKept
  <2>3. Promised(m) => Promised(m)'
    BY <1>2, <1>3, <1>4, NoPromiseLost
  <2>4. ASSUME Following(m), ~Promised(m)'  PROVE Tended(m)'
    <3>1. linkRow[m].path \in Paths
      BY <2>4 DEF FollowInv, TruthInv, RowTrue, Following
    <3>2. watches.reg[m] # NoReg /\ watches.reg[m].parent = FolderOf[linkRow[m].path]
      <4>1. Placed(m) /\ ~Promised(m)
        BY <2>1, <2>3, <2>4 DEF WellFollowed
      <4>2. Awaited(m) => Promised(m)
        BY DEF Awaited, Promised, FollowInv, ChecksKept
      <4> QED  BY <4>1, <4>2 DEF Placed
    <3>3. DiskShifts(m)
      BY <1>1, <2>3, <2>4, <3>1, <3>2, FileShifts, RemovalShifts, ReturnShifts
    <3>4. \/ check[m].pc = "off" /\ m \in unchecked
          \/ Sound(disk, linkRow[m], watches.reg[m], check[m])
      BY <2>2, <2>3, <2>4 DEF Tended
    <3>5. disk'.file[linkRow[m].path] = disk.file[linkRow[m].path] =>
             /\ Fresh(disk, linkRow[m]) => Fresh(disk', linkRow[m])
             /\ Agrees(disk, linkRow[m], check[m]) => Agrees(disk', linkRow[m], check[m])
      BY <1>5, <3>1, StillFresh
    <3>6. \/ check[m].pc = "off" /\ m \in unchecked
          \/ Sound(disk', linkRow[m], watches.reg[m], check[m])
      BY <2>4, <3>3, <3>4, <3>5, Zenon DEF Sound, DiskShifts
    <3> QED  BY <1>2, <1>3, <3>6 DEF Tended
  <2>5. Following(m) => Tended(m)'
    BY <2>4 DEF Tended
  <2> QED  BY <2>2, <2>5 DEF WellFollowed
<1> QED  BY <1>6, <1>7, <1>8

(***************************************************************************)
(* Checks.                                                                 *)
(***************************************************************************)

\* A check of m leaves the other Models as they are.
LEMMA OthersFollow ==
  ASSUME FollowInv, NEW m \in Linkables, NEW o \in Linkables \ misfollowed, o # m,
         UNCHANGED <<disk, heard, call, pass>>,
         linkRow'[o] = linkRow[o], watches'.reg[o] = watches.reg[o], check'[o] = check[o], due'[o] = due[o],
         o \in unchecked => o \in unchecked'
  PROVE  WellFollowed(o)'
<1>1. WellFollowed(o)
  BY DEF FollowInv
<1>2. Promised(o) => Promised(o)'
  BY NoPromiseLost
<1> QED  BY <1>1, <1>2, Steady

LEMMA StartFollows ==
  ASSUME FollowInv, NEW m \in Linkables, NEW by \in {"scheduled", "retry"}, StartCheck(m, by)
  PROVE  ChecksKept' /\ WatchesKept' /\ EndsKept' /\ \A o \in Linkables \ misfollowed' : WellFollowed(o)'
<1> DEFINE new == [NoCheck EXCEPT !.by = by, !.link = linkRow[m], !.pc = IF Following(m) THEN "stat" ELSE "follow"]
           n == IF by = "scheduled" THEN due[m].waiting - 1 ELSE due[m].waiting
           d == [due[m] EXCEPT !.queued = FALSE, !.waiting = n]
<1>1. /\ by = "scheduled" => due[m].waiting > 0
      /\ check' = [check EXCEPT ![m] = new]
      /\ UNCHANGED <<disk, linkRow, watches, heard, call, outdated, pass, misfollowed, unchecked>>
  BY Zenon DEF StartCheck, SetCheck
<1>d. due' = [due EXCEPT ![m] = d]
  <2>1. due' = [due EXCEPT ![m].queued = FALSE, ![m].waiting = IF by = "scheduled" THEN @ - 1 ELSE @]
    BY Zenon DEF StartCheck
  <2>2. due \in [Linkables -> Waits] /\ due[m] \in Waits
    BY DEF FollowInv, ChecksKept, Waits
  <2> QED  BY <2>1, <2>2
<1>2. d \in Waits /\ d.queued = FALSE
  <2>1. due[m] \in Waits /\ n \in Nat
    BY <1>1 DEF FollowInv, ChecksKept, Waits
  <2> HIDE DEF n
  <2>2. d = [[due[m] EXCEPT !.queued = FALSE] EXCEPT !.waiting = n]
    OBVIOUS
  <2> DEFINE e == [due[m] EXCEPT !.queued = FALSE]
  <2>3. e \in Waits /\ e.queued = FALSE
    BY <2>1 DEF Waits
  <2> HIDE DEF e, d
  <2>4. d = [e EXCEPT !.waiting = n]
    BY <2>2 DEF e
  <2> QED  BY <2>1, <2>3, <2>4 DEF Waits
<1>3. ChecksKept'
  <2> HIDE DEF d
  <2>1. due' \in [Linkables -> Waits] /\ \A o \in Linkables : due'[o] = IF o = m THEN d ELSE due[o]
    BY <1>d, <1>2 DEF FollowInv, ChecksKept, Waits
  <2>2. \A o \in Linkables : due'[o].queued => due'[o].waiting > 0
    BY <1>2, <2>1 DEF FollowInv, ChecksKept
  <2> QED  BY <1>1, <2>1, <2>2 DEF FollowInv, ChecksKept, PassTyped, Waits
<1>4. WatchesKept' /\ EndsKept'
  BY <1>1, SharesKept
<1>5. ASSUME NEW o \in Linkables \ misfollowed', o # m  PROVE WellFollowed(o)'
  <2>1. check'[o] = check[o] /\ due'[o] = due[o]
    <3> HIDE DEF d, new
    <3> QED  BY <1>1, <1>d, <1>5 DEF FollowInv, TruthInv, LinksTyped, ChecksKept
  <2> QED  BY <1>1, <1>5, <2>1, OthersFollow
<1>6. ASSUME m \notin misfollowed'  PROVE WellFollowed(m)'
  <2>1. /\ Following(m)' = Following(m) /\ (Following(m) => Placed(m)' /\ Tended(m)) /\ (~Following(m) => Released(m)')
    BY <1>1, <1>6, PlaceKept DEF FollowInv
  <2>2. ASSUME Following(m)  PROVE Tended(m)'
    <3>1. check'[m] = new
      BY <1>1 DEF FollowInv, TruthInv, LinksTyped
    <3>2. new.pc = "stat" /\ new.link = linkRow[m]
      BY <2>2 DEF NoCheck
    <3> HIDE DEF new
    <3>3. Sound(disk, linkRow[m], watches.reg[m], new)
      BY <3>2 DEF Sound, Agrees
    <3> QED  BY <1>1, <3>1, <3>3 DEF Tended
  <2> QED  BY <2>1, <2>2 DEF WellFollowed
<1> QED  BY <1>3, <1>4, <1>5, <1>6

Leads(m, new) == /\ check[m].pc \in {"stat", "read"} /\ new.pc # "off"
                 /\ Following(m) /\ Agrees(disk, linkRow[m], check[m]) => Agrees(disk, linkRow[m], new)
OnlyLooks == UNCHANGED <<disk, linkRow, watches, heard, due, call, outdated, pass, misfollowed, unchecked>>

\* The check of m goes on without touching its row: what it found must hold.
LEMMA LookFollows ==
  ASSUME FollowInv, NEW m \in Linkables, NEW new, Leads(m, new), SetCheck(m, new), OnlyLooks
  PROVE  ChecksKept' /\ WatchesKept' /\ EndsKept' /\ \A o \in Linkables \ misfollowed' : WellFollowed(o)'
<1>1. ChecksKept' /\ WatchesKept' /\ EndsKept'
  BY SharesKept DEF OnlyLooks
<1>2. ASSUME NEW o \in Linkables \ misfollowed', o # m  PROVE WellFollowed(o)'
  <2>1. check'[o] = check[o]
    BY <1>2 DEF SetCheck, FollowInv, TruthInv, LinksTyped
  <2> QED  BY <1>2, <2>1, OthersFollow DEF OnlyLooks
<1>3. ASSUME m \notin misfollowed'  PROVE WellFollowed(m)'
  <2>1. /\ Following(m)' = Following(m) /\ (Following(m) => Placed(m)' /\ Tended(m)) /\ (~Following(m) => Released(m)')
    BY <1>3, PlaceKept DEF FollowInv, OnlyLooks
  <2>2. ASSUME Following(m)  PROVE Tended(m)'
    <3>1. check'[m] = new
      BY DEF SetCheck, FollowInv, TruthInv, LinksTyped
    <3>2. Promised(m) => Promised(m)'
      BY NoPromiseLost DEF OnlyLooks
    <3>3. Sound(disk, linkRow[m], watches.reg[m], check[m]) => Sound(disk, linkRow[m], watches.reg[m], new)
      BY <2>2 DEF Sound, Leads
    <3>4. check[m].pc # "off"
      BY DEF Leads
    <3> QED  BY <2>1, <2>2, <3>1, <3>2, <3>3, <3>4 DEF Tended, OnlyLooks
  <2> QED  BY <2>1, <2>2 DEF WellFollowed
<1> QED  BY <1>1, <1>2, <1>3

LEMMA StatFollows ==
  ASSUME FollowInv, NEW m \in Linkables, StatSource(m)
  PROVE  ChecksKept' /\ WatchesKept' /\ EndsKept' /\ \A o \in Linkables \ misfollowed' : WellFollowed(o)'
<1> DEFINE c == check[m]  s == disk.file[c.link.path]
           new == CASE s = 0 -> [c EXCEPT !.pc = "apply", !.found = "missing"]
                    [] s # 0 /\ c.link.state = "ok" /\ c.link.observed = s -> [c EXCEPT !.pc = "follow", !.found = "ok"]
                    [] OTHER -> [c EXCEPT !.pc = "read", !.stamp = s]
<1>1. /\ c.pc = "stat" /\ SetCheck(m, new)
      /\ UNCHANGED <<disk, linkRow, watches, heard, due, call, outdated, pass, misfollowed, unchecked>>
  BY Zenon DEF StatSource
<1>2. c \in Check /\ CheckTrue(disk, c) /\ RowTrue(disk, c.link) /\ c.link.mode = "linked" /\ c.stamp = 0
  BY <1>1 DEF FollowInv, TruthInv, LinksTyped, CheckTrue
<1>3. \/ s = 0 /\ new = [c EXCEPT !.pc = "apply", !.found = "missing"]
      \/ s # 0 /\ c.link.state = "ok" /\ c.link.observed = s /\ new = [c EXCEPT !.pc = "follow", !.found = "ok"]
      \/ s # 0 /\ new = [c EXCEPT !.pc = "read", !.stamp = s]
  OBVIOUS
<1> HIDE DEF new
<1>4. new.pc # "off" /\ (c.link = linkRow[m] => Agrees(disk, linkRow[m], new))
  <2>1. CASE s = 0 /\ new = [c EXCEPT !.pc = "apply", !.found = "missing"]
    BY <1>2, <2>1 DEF Check, Agrees
  <2>2. CASE s # 0 /\ c.link.state = "ok" /\ c.link.observed = s /\ new = [c EXCEPT !.pc = "follow", !.found = "ok"]
    BY <1>2, <2>2 DEF Check, Agrees, RowTrue, Holds, Fresh
  <2>3. CASE s # 0 /\ new = [c EXCEPT !.pc = "read", !.stamp = s]
    BY <1>2, <2>3 DEF Check, Agrees
  <2> QED  BY <1>3, <2>1, <2>2, <2>3
<1>5. Agrees(disk, linkRow[m], c) => c.link = linkRow[m]
  BY <1>1 DEF Agrees
<1>6. Leads(m, new) /\ SetCheck(m, new) /\ OnlyLooks
  BY <1>1, <1>4, <1>5 DEF Leads, OnlyLooks
<1> QED  BY <1>6, LookFollows, Zenon

LEMMA ReadFollows ==
  ASSUME FollowInv, NEW m \in Linkables, ReadSource(m)
  PROVE  ChecksKept' /\ WatchesKept' /\ EndsKept' /\ \A o \in Linkables \ misfollowed' : WellFollowed(o)'
<1> DEFINE c == check[m]  read == Staged(c.link, c.stamp)
           new == [c EXCEPT !.pc = "apply", !.found = read.found, !.stamp = read.stamp]
<1>1. /\ c.pc = "read" /\ SetCheck(m, new)
      /\ UNCHANGED <<disk, linkRow, watches, heard, due, call, outdated, pass, misfollowed, unchecked>>
  BY Zenon DEF ReadSource
<1>2. c \in Check /\ c.stamp # 0
  BY <1>1 DEF FollowInv, TruthInv, LinksTyped, CheckTrue
<1>3. disk.file[c.link.path] = c.stamp =>
         /\ read.stamp = c.stamp
         /\ \/ read.found = "ok" /\ Content(c.stamp) = c.link.current
            \/ read.found = "invalid" /\ Content(c.stamp) \in Unsuited
            \/ read.found = "new"
  BY DEF Staged
<1> HIDE DEF read
<1>4. new.pc = "apply" /\ new.link = c.link /\ new.found = read.found /\ new.stamp = read.stamp
  BY <1>2 DEF Check
<1> HIDE DEF new
<1>5. Agrees(disk, linkRow[m], c) => Agrees(disk, linkRow[m], new)
  <2> SUFFICES ASSUME Agrees(disk, linkRow[m], c)  PROVE Agrees(disk, linkRow[m], new)
    OBVIOUS
  <2>1. linkRow[m] = c.link /\ disk.file[linkRow[m].path] = c.stamp
    BY <1>1 DEF Agrees
  <2> QED  BY <1>2, <1>3, <1>4, <2>1 DEF Agrees, Content
<1> HIDE DEF c
<1>6. Leads(m, new) /\ SetCheck(m, new) /\ OnlyLooks
  BY <1>1, <1>4, <1>5 DEF Leads, OnlyLooks, c
<1> QED  BY <1>6, LookFollows, Zenon

\* What is recorded of a source as it is leaves the row fresh, at its path.
LEMMA RecordedFresh ==
  ASSUME NEW row \in Link, row.mode = "linked", NEW c \in Check, c.pc = "apply"
  PROVE  LET new == Recorded(row, c.found, c.stamp)
         IN /\ new.mode = "linked" /\ new.path = row.path
            /\ row = c.link /\ Agrees(disk, row, c) => Fresh(disk, new)
<1> DEFINE new == Recorded(row, c.found, c.stamp)
<1>1. CASE c.found = "new"
  <2>1. new = Linkage(row.path, c.stamp)
    BY <1>1 DEF Recorded
  <2>2. new.mode = "linked" /\ new.path = row.path /\ new.state = "ok" /\ new.observed = c.stamp
        /\ new.current = disk.made[c.stamp].content
    BY <2>1 DEF Linkage, Content
  <2> HIDE DEF new
  <2>3. Agrees(disk, row, c) => Fresh(disk, new)
    BY <1>1, <2>2 DEF Agrees, Fresh
  <2> QED  BY <2>2, <2>3 DEF new
<1>2. CASE c.found # "new"
  <2>1. new = [row EXCEPT !.state = c.found, !.observed = IF c.stamp = 0 THEN @ ELSE c.stamp]
    BY <1>2 DEF Recorded
  <2>2. /\ new.mode = "linked" /\ new.path = row.path /\ new.state = c.found /\ new.current = row.current
        /\ new.observed = IF c.stamp = 0 THEN row.observed ELSE c.stamp
    BY <2>1 DEF Link, Check
  <2> HIDE DEF new
  <2>3. Agrees(disk, row, c) => Fresh(disk, new)
    BY <1>2, <2>2 DEF Agrees, Fresh
  <2> QED  BY <2>2, <2>3 DEF new
<1> QED  BY <1>1, <1>2

LEMMA ApplyFollows ==
  ASSUME FollowInv, NEW m \in Linkables, ApplyOutcome(m)
  PROVE  ChecksKept' /\ WatchesKept' /\ EndsKept' /\ \A o \in Linkables \ misfollowed' : WellFollowed(o)'
<1> DEFINE c == check[m]  row == linkRow[m]  new == Recorded(row, c.found, c.stamp)
           done == [c EXCEPT !.pc = "follow"]
           idle == [c EXCEPT !.pc = "follow", !.found = "none"]
<1>1. /\ c.pc = "apply" /\ UNCHANGED <<disk, watches, heard, due, call, pass, misfollowed, unchecked>>
      /\ \/ /\ LinkedAsSeen(row, c.link) /\ SetCheck(m, done)
            /\ (new = row /\ UNCHANGED <<linkRow, outdated>>) \/ SaveLink(m, new)
         \/ ~LinkedAsSeen(row, c.link) /\ SetCheck(m, idle) /\ UNCHANGED <<linkRow, outdated>>
  BY Zenon DEF ApplyOutcome
<1>2. /\ c \in Check /\ row \in Link /\ linkRow \in [Linkables -> Link] /\ check \in [Linkables -> Check]
  BY DEF FollowInv, TruthInv, LinksTyped
<1>3. done.pc = "follow" /\ idle.pc = "follow"
  BY <1>2 DEF Check
<1>4. row.mode = "linked" => /\ new.mode = "linked" /\ new.path = row.path
                             /\ row = c.link /\ Agrees(disk, row, c) => Fresh(disk, new)
  BY <1>1, <1>2, RecordedFresh
<1> HIDE DEF new, done, idle, c, row
<1>5. \A o \in Linkables \ {m} : check'[o] = check[o] /\ linkRow'[o] = linkRow[o]
  BY <1>1, <1>2 DEF SetCheck, SaveLink
<1>6. ChecksKept' /\ WatchesKept'
  BY <1>1, SharesKept
<1>7. EndsKept'
  <2>1. CASE UNCHANGED <<linkRow, outdated>>
    BY <1>1, <2>1, SharesKept
  <2>2. CASE LinkedAsSeen(row, c.link) /\ SaveLink(m, new)
    <3>1. row.mode = "linked" /\ new.mode = "linked"
      BY <1>4, <2>2 DEF LinkedAsSeen
    <3>2. linkRow' = [linkRow EXCEPT ![m] = new] /\ outdated \subseteq outdated'
      BY <2>2 DEF SaveLink
    <3>3. ASSUME NEW x \in Callers
          PROVE  /\ call[x].pc \in {"staging", "staged"} /\ x \notin outdated'
                        => linkRow'[call[x].model].mode \in {"linked", "absent"}
                 /\ call[x].pc = "ended" => linkRow'[call[x].model].mode \in {"managed", "deleted"}
      <4>1. call[x].pc # "idle" => call[x].model \in Linkables
        BY DEF FollowInv, TruthInv, CallTrue
      <4>2. /\ call[x].pc \in {"staging", "staged"} /\ x \notin outdated
                  => linkRow[call[x].model].mode \in {"linked", "absent"}
            /\ call[x].pc = "ended" => linkRow[call[x].model].mode \in {"managed", "deleted"}
        BY DEF FollowInv, EndsKept
      <4>3. CASE call[x].model = m
        BY <1>2, <3>1, <3>2, <4>2, <4>3 DEF row
      <4>4. CASE call[x].model # m
        BY <1>2, <3>2, <4>1, <4>2, <4>4
      <4> QED  BY <4>3, <4>4
    <3> QED  BY <1>1, <3>3 DEF EndsKept
  <2> QED  BY <1>1, <2>1, <2>2
<1>8. ASSUME NEW o \in Linkables \ misfollowed', o # m  PROVE WellFollowed(o)'
  BY <1>1, <1>5, <1>8, OthersFollow
<1>9. ASSUME m \notin misfollowed'  PROVE WellFollowed(m)'
  <2>1. WellFollowed(m)
    BY <1>1, <1>9 DEF FollowInv
  <2>2. check'[m].pc = "follow"
    BY <1>1, <1>2, <1>3 DEF SetCheck
  <2>3. CASE ~Following(m)
    <3>1. UNCHANGED linkRow
      BY <1>1, <2>3 DEF LinkedAsSeen, Following, row
    <3> QED  BY <1>1, <2>1, <2>3, <3>1 DEF WellFollowed, Released, Following
  <2>4. CASE Following(m)
    <3>1. row.mode = "linked" /\ linkRow'[m] \in {row, new}
      BY <1>1, <1>2, <2>4 DEF Following, SaveLink, row
    <3>2. linkRow'[m].mode = "linked" /\ linkRow'[m].path = row.path
      BY <1>4, <3>1
    <3>3. Placed(m)'
      BY <1>1, <2>1, <2>4, <3>2 DEF WellFollowed, Placed, Awaited, row
    <3>4. Promised(m) => Promised(m)'
      BY <1>1, NoPromiseLost
    <3>5. ASSUME ~Promised(m)  PROVE Tended(m)'
      <4>1. Strayed(disk.folders, watches.reg[m]) \/ Agrees(disk, row, c)
        BY <1>1, <2>1, <2>4, <3>5 DEF WellFollowed, Tended, Sound, c, row
      <4>2. CASE Strayed(disk.folders, watches.reg[m])
        BY <1>1, <2>2, <4>2 DEF Tended, Sound
      <4>3. CASE Agrees(disk, row, c)
        <5>1. row = c.link
          BY <1>1, <4>3 DEF Agrees
        <5>2. linkRow'[m] = new /\ Fresh(disk, new)
          BY <1>1, <1>2, <1>4, <3>1, <4>3, <5>1 DEF LinkedAsSeen, SaveLink, row
        <5>3. Agrees(disk, new, check'[m])
          BY <2>2, <5>2 DEF Agrees
        <5> QED  BY <1>1, <2>2, <5>2, <5>3 DEF Tended, Sound
      <4> QED  BY <4>1, <4>2, <4>3
    <3> QED  BY <3>2, <3>3, <3>4, <3>5 DEF WellFollowed, Following, Tended
  <2> QED  BY <2>3, <2>4
<1> QED  BY <1>6, <1>7, <1>8, <1>9

LEMMA FailureFollows ==
  ASSUME FollowInv, NEW m \in Linkables, CheckFails(m)
  PROVE  ChecksKept' /\ WatchesKept' /\ EndsKept' /\ \A o \in Linkables \ misfollowed' : WellFollowed(o)'
<1> DEFINE n == IF check[m].by = "retry" THEN 0 ELSE due[m].retries
           d == [due[m] EXCEPT !.retries = n]
<1>1. /\ check[m].pc = "apply" /\ check' = [check EXCEPT ![m] = NoCheck] /\ unchecked' = unchecked \cup {m}
      /\ UNCHANGED <<disk, linkRow, watches, heard, call, outdated, pass, misfollowed>>
  BY Zenon DEF CheckFails, SetCheck
<1>t. due \in [Linkables -> Waits] /\ due[m] \in Waits /\ check \in [Linkables -> Check]
  BY DEF FollowInv, TruthInv, LinksTyped, ChecksKept, Waits
<1>2. due' = [due EXCEPT ![m] = d]
  <2>1. due' = [due EXCEPT ![m].retries = IF check[m].by = "retry" THEN 0 ELSE @]
    BY Zenon DEF CheckFails
  <2> QED  BY <1>t, <2>1
<1>3. d \in Waits /\ d.waiting = due[m].waiting /\ (d.queued => due[m].queued)
  <2>1. n \in Int
    BY <1>t DEF Waits
  <2> HIDE DEF n
  <2>2. d.queued = due[m].queued
    BY <1>t DEF Waits
  <2> QED  BY <1>t, <2>1, <2>2 DEF Waits
<1> HIDE DEF d
<1>4. ChecksKept'
  <2>1. due' \in [Linkables -> Waits] /\ \A o \in Linkables : due'[o] = IF o = m THEN d ELSE due[o]
    BY <1>t, <1>2, <1>3
  <2>2. \A o \in Linkables : due'[o].queued => due'[o].waiting > 0
    BY <1>3, <2>1 DEF FollowInv, ChecksKept
  <2> QED  BY <1>1, <2>1, <2>2 DEF FollowInv, ChecksKept, PassTyped, Waits
<1>5. WatchesKept' /\ EndsKept'
  BY <1>1, SharesKept
<1>6. ASSUME NEW o \in Linkables \ misfollowed', o # m  PROVE WellFollowed(o)'
  <2>1. check'[o] = check[o] /\ due'[o] = due[o]
    BY <1>t, <1>1, <1>2, <1>6
  <2> QED  BY <1>1, <1>6, <2>1, OthersFollow
<1>7. ASSUME m \notin misfollowed'  PROVE WellFollowed(m)'
  <2>1. /\ Following(m)' = Following(m) /\ (Following(m) => Placed(m)' /\ Tended(m)) /\ (~Following(m) => Released(m)')
    BY <1>1, <1>7, PlaceKept DEF FollowInv
  <2>2. Tended(m)'
    BY <1>t, <1>1 DEF Tended, NoCheck
  <2> QED  BY <2>1, <2>2 DEF WellFollowed
<1> QED  BY <1>4, <1>5, <1>6, <1>7

LEMMA StrayedMoves ==
  \A w, m : Moves(w, m) <=> Strayed(disk.folders, w.reg[m])
BY NearestExists, Zenon DEF Moves, Strayed, Target

LEMMA FollowUpFollows ==
  ASSUME FollowInv, NEW m \in Linkables, FollowUp(m)
  PROVE  ChecksKept' /\ WatchesKept' /\ EndsKept' /\ \A o \in Linkables \ misfollowed' : WellFollowed(o)'
<1> DEFINE c == check[m]  d == due[m]
           left == IF c.by = "retry" THEN (IF c.found = "changing" THEN d.retries - 1 ELSE 0)
                   ELSE IF c.found = "changing" /\ d.retries = 0 THEN Retries ELSE d.retries
           again == Moves(watches, m) /\ ~d.queued
           n == IF again THEN d.waiting + 1 ELSE d.waiting
           new == [queued |-> d.queued \/ again, retries |-> left, waiting |-> n]
<1>1. /\ c.pc = "follow" /\ watches' = MoveWatches(watches, {m}) /\ due' = [due EXCEPT ![m] = new]
      /\ check' = [check EXCEPT ![m] = NoCheck] /\ unchecked' = unchecked \ {m}
      /\ UNCHANGED <<disk, linkRow, heard, call, outdated, pass, misfollowed>>
  BY Zenon DEF FollowUp, SetCheck
<1>t. /\ due \in [Linkables -> Waits] /\ d \in Waits /\ (d.queued => d.waiting > 0) /\ check \in [Linkables -> Check]
      /\ WatchesCounted(watches) /\ NestedIn(disk.folders) /\ WatchesLive(disk.folders, watches, heard)
  BY DEF FollowInv, TruthInv, LinksTyped, ChecksKept, WatchesKept, Waits
<1>2. left \in Int /\ n \in Nat /\ (d.waiting > 0 => n > 0) /\ (again => n > 0) /\ d.queued \in BOOLEAN
  <2>1. d.waiting \in Nat /\ d.retries \in Int /\ d.queued \in BOOLEAN
    BY <1>t DEF Waits
  <2>2. Retries \in Int
    BY LinksAssumption
  <2> HIDE DEF again
  <2> QED  BY <2>1, <2>2
<1>3. (d.queued \/ again) \in BOOLEAN /\ (d.queued \/ again => n > 0)
  <2> HIDE DEF again, n
  <2> QED  BY <1>t, <1>2
<1>4. new \in Waits /\ new.waiting = n /\ (new.queued => n > 0)
  <2> DEFINE q == d.queued \/ again
  <2>1. new = [queued |-> q, retries |-> left, waiting |-> n] /\ q \in BOOLEAN /\ (q => n > 0)
    BY <1>3
  <2> HIDE DEF q, new, left, n
  <2> QED  BY <1>2, <2>1 DEF Waits
<1>5. Moves(watches, m) => n > 0
  <2> HIDE DEF n
  <2> QED  BY <1>3
<1>6. Moves(watches, m) <=> Strayed(disk.folders, watches.reg[m])
  BY StrayedMoves
<1> HIDE DEF new, n, left
<1>7. due' \in [Linkables -> Waits] /\ \A o \in Linkables : due'[o] = IF o = m THEN new ELSE due[o]
  BY <1>t, <1>1, <1>4
<1>8. ChecksKept'
  <2>2. \A o \in Linkables : due'[o].queued => due'[o].waiting > 0
    BY <1>4, <1>7 DEF FollowInv, ChecksKept
  <2> QED  BY <1>1, <1>7, <2>2 DEF FollowInv, ChecksKept, PassTyped, Waits
<1>9. /\ WatchesCounted(watches')
      /\ \A o \in Linkables : watches'.reg[o] = IF o \in {m} /\ Moves(watches, o)
                                                THEN [watches.reg[o] EXCEPT !.watched = Target(watches, o)] ELSE watches.reg[o]
      /\ WatchesLive(disk.folders, watches', heard)
  <2>1. PICK w, ms : w = watches /\ ms = {m}
    OBVIOUS
  <2>2. ms \in SUBSET Linkables /\ WatchesCounted(w)
    BY <1>t, <2>1
  <2>3. /\ WatchesCounted(MoveWatches(w, ms))
        /\ \A o \in Linkables : MoveWatches(w, ms).reg[o] = IF o \in ms /\ Moves(w, o)
                                                THEN [w.reg[o] EXCEPT !.watched = Target(w, o)] ELSE w.reg[o]
        /\ \A h : WatchesLive(disk.folders, w, h) => WatchesLive(disk.folders, MoveWatches(w, ms), h)
    BY <1>t, <2>2, Moved
  <2>4. watches' = MoveWatches(w, ms)
    BY <1>1, <2>1
  <2> HIDE DEF d, c, again
  <2> QED  BY <1>t, <2>1, <2>3, <2>4
<1>10. WatchesKept'
  BY <1>t, <1>1, <1>9 DEF WatchesKept
<1>11. EndsKept'
  BY <1>1, SharesKept
<1>12. ASSUME NEW o \in Linkables \ misfollowed', o # m  PROVE WellFollowed(o)'
  <2>1. check'[o] = check[o] /\ due'[o] = due[o] /\ watches'.reg[o] = watches.reg[o]
    BY <1>t, <1>1, <1>7, <1>9, <1>12
  <2> QED  BY <1>1, <1>12, <2>1, OthersFollow
<1>13. ASSUME m \notin misfollowed'  PROVE WellFollowed(m)'
  <2>1. WellFollowed(m) /\ check'[m].pc = "off" /\ due'[m].waiting = n
    BY <1>1, <1>t, <1>4, <1>7, <1>13 DEF FollowInv, NoCheck
  <2>2. CASE Moves(watches, m)
    <3>1. watches'.reg[m] = [watches.reg[m] EXCEPT !.watched = Target(watches, m)]
      BY <1>9, <2>2
    <3>2. watches.reg[m] # NoReg
      BY <2>2 DEF Moves
    <3>3. watches.reg[m] \in [parent : Folders, watched : Folders] /\ watches'.reg[m] \in Registration
      BY <1>t, <1>9, <3>2 DEF WatchesCounted, Registration
    <3>4. watches'.reg[m] # NoReg /\ watches'.reg[m].parent = watches.reg[m].parent
      BY <3>1, <3>3, NowhereRegistered
    <3>5. Promised(m)'
      BY <1>5, <2>1, <2>2 DEF Promised
    <3>6. Following(m)' = Following(m) /\ (Placed(m) => Placed(m)') /\ (Released(m) => Released(m)')
      BY <1>1, <3>2, <3>4 DEF Following, Placed, Awaited, Released
    <3> QED  BY <2>1, <3>5, <3>6 DEF WellFollowed, Tended
  <2>3. CASE ~Moves(watches, m)
    <3>1. watches'.reg[m] = watches.reg[m]
      BY <1>9, <2>3
    <3>2. /\ Following(m)' = Following(m) /\ (Following(m) => Placed(m)' /\ Tended(m)) /\ (~Following(m) => Released(m)')
      BY <1>1, <2>1, <3>1, PlaceKept
    <3>3. Promised(m) => Promised(m)'
      <4>1. due[m].waiting > 0 => due'[m].waiting > 0
        BY <1>2, <2>1
      <4> QED  BY <1>1, <3>1, <4>1, NoPromiseLost
    <3>4. ASSUME Following(m), ~Promised(m)  PROVE Tended(m)'
      <4>1. Sound(disk, linkRow[m], watches.reg[m], c)
        BY <1>1, <3>2, <3>4 DEF Tended
      <4>2. Fresh(disk, linkRow[m])
        BY <1>1, <1>6, <2>3, <4>1 DEF Sound, Agrees
      <4> QED  BY <1>1, <1>6, <2>1, <2>3, <3>1, <4>2 DEF Tended, Sound
    <3> QED  BY <3>2, <3>3, <3>4 DEF WellFollowed, Tended
  <2> QED  BY <2>2, <2>3
<1> QED  BY <1>8, <1>10, <1>11, <1>12, <1>13

(***************************************************************************)
(* Commands.                                                               *)
(***************************************************************************)

\* A command that was neither committed nor ending moves on: the Models whose rows stay do not see it.
LEMMA CallsAside ==
  ASSUME FollowInv, NEW c \in Callers, call[c].pc \notin {"committed", "ended"}, NEW a \in Call, SetCall(c, a),
         UNCHANGED <<disk, watches, heard, due, check, pass, unchecked>>,
         NEW m \in Linkables \ misfollowed, linkRow'[m] = linkRow[m]
  PROVE  WellFollowed(m)'
<1>1. WellFollowed(m)
  BY DEF FollowInv
<1>2. \A x \in Callers : call[x].pc \in {"committed", "ended"} => call'[x] = call[x]
  BY DEF SetCall, FollowInv, TruthInv, LinksTyped
<1>3. Promised(m) => Promised(m)'
  BY <1>2, NoPromiseLost
<1> QED  BY <1>1, <1>2, <1>3, Steady

\* The row of call a, which is outdated or not, with the rows rows.
EndKept(rows, a, stale) ==
    /\ a.pc \in {"staging", "staged"} /\ ~stale => rows[a.model].mode \in {"linked", "absent"}
    /\ a.pc = "ended" => rows[a.model].mode \in {"managed", "deleted"}

LEMMA EndsAfter ==
  ASSUME FollowInv, NEW c \in Callers, NEW a \in Call, SetCall(c, a),
         \A x \in Callers \ {c} : EndKept(linkRow', call[x], x \in outdated'),
         EndKept(linkRow', a, c \in outdated')
  PROVE  EndsKept'
<1>1. /\ call'[c] = a
      /\ \A x \in Callers \ {c} : call'[x] = call[x]
  BY DEF SetCall, FollowInv, TruthInv, LinksTyped
<1>2. \A x \in Callers : EndKept(linkRow', call'[x], x \in outdated')
  BY <1>1
<1> QED  BY <1>2 DEF EndKept, EndsKept

LEMMA EndsBefore ==
  ASSUME FollowInv, NEW x \in Callers
  PROVE  EndKept(linkRow, call[x], x \in outdated)
BY DEF FollowInv, EndsKept, EndKept

LEMMA StageFollows ==
  ASSUME FollowInv, NEW c \in Callers, StageChosen(c)
  PROVE  ChecksKept' /\ WatchesKept' /\ EndsKept' /\ \A m \in Linkables \ misfollowed' : WellFollowed(m)'
<1> DEFINE a == call[c]
           new == [a EXCEPT !.pc = "staged"]
<1>1. /\ a.pc = "staging" /\ (SetCall(c, new) \/ SetCall(c, NoCall))
      /\ UNCHANGED <<disk, linkRow, watches, heard, due, check, outdated, pass, misfollowed, unchecked>>
  BY Zenon DEF StageChosen
<1>2. a \in Call
  BY DEF FollowInv, TruthInv, LinksTyped
<1>3. new \in Call /\ new.pc = "staged" /\ new.model = a.model /\ NoCall \in Call /\ NoCall.pc = "idle"
  BY <1>2 DEF Call, NoCall
<1> HIDE DEF new
<1>4. ChecksKept' /\ WatchesKept'
  BY <1>1, SharesKept
<1>5. EndsKept'
  <2>1. \A x \in Callers : EndKept(linkRow', call[x], x \in outdated')
    BY <1>1, EndsBefore
  <2>2. EndKept(linkRow', new, c \in outdated') /\ EndKept(linkRow', NoCall, c \in outdated')
    BY <1>1, <1>3, <2>1 DEF EndKept
  <2> QED  BY <1>1, <1>3, <2>1, <2>2, EndsAfter
<1>6. \A m \in Linkables \ misfollowed' : WellFollowed(m)'
  BY <1>1, <1>3, CallsAside
<1> QED  BY <1>4, <1>5, <1>6

LEMMA CommitFollows ==
  ASSUME FollowInv, NEW c \in Callers, CommitLink(c)
  PROVE  ChecksKept' /\ WatchesKept' /\ EndsKept' /\ \A m \in Linkables \ misfollowed' : WellFollowed(m)'
<1> DEFINE a == call[c]
           new == [a EXCEPT !.pc = "committed"]
           row == Linkage(a.path, a.stamp)
<1>1. /\ a.pc = "staged"
      /\ UNCHANGED <<disk, watches, heard, due, check, pass, misfollowed, unchecked>>
      /\ \/ SetCall(c, NoCall) /\ UNCHANGED <<linkRow, outdated>>
         \/ c \notin outdated /\ SetCall(c, new) /\ SaveLink(a.model, row)
  BY Zenon DEF CommitLink
<1>2. a \in Call /\ a.model \in Linkables /\ linkRow \in [Linkables -> Link] /\ call \in [Callers -> Call]
  BY <1>1 DEF FollowInv, TruthInv, LinksTyped, CallTrue
<1>3. /\ new \in Call /\ new.pc = "committed" /\ new.model = a.model /\ new.path = a.path
      /\ NoCall \in Call /\ NoCall.pc = "idle"
  BY <1>2 DEF Call, NoCall
<1>4. row.mode = "linked" /\ row.path = a.path
  BY DEF Linkage
<1> HIDE DEF new, row
<1>5. ChecksKept' /\ WatchesKept'
  BY <1>1, SharesKept
<1>6. \A x \in Callers : EndKept(linkRow, call[x], x \in outdated)
  BY EndsBefore
<1>7. CASE SetCall(c, NoCall) /\ UNCHANGED <<linkRow, outdated>>
  <2>1. EndsKept'
    <3>1. EndKept(linkRow', NoCall, c \in outdated') /\ \A x \in Callers : EndKept(linkRow', call[x], x \in outdated')
      BY <1>3, <1>6, <1>7 DEF EndKept
    <3> QED  BY <1>3, <1>7, <3>1, EndsAfter
  <2>2. \A m \in Linkables \ misfollowed' : WellFollowed(m)'
    BY <1>1, <1>3, <1>7, CallsAside
  <2> QED  BY <1>5, <2>1, <2>2
<1>8. CASE c \notin outdated /\ SetCall(c, new) /\ SaveLink(a.model, row)
  <2>1. linkRow' = [linkRow EXCEPT ![a.model] = row] /\ outdated' = outdated \cup {x \in Callers : call[x].model = a.model}
    BY <1>8 DEF SaveLink
  <2>2. EndsKept'
    <3>1. ASSUME NEW x \in Callers  PROVE EndKept(linkRow', call[x], x \in outdated')
      <4>1. CASE call[x].model = a.model
        <5>1. x \in outdated' /\ call[x].pc # "ended"
          BY <1>1, <1>6, <1>8, <2>1, <4>1 DEF EndKept
        <5> QED  BY <5>1 DEF EndKept
      <4>2. CASE call[x].model # a.model
        <5>1. call[x].pc # "idle" => call[x].model \in Linkables
          BY DEF FollowInv, TruthInv, CallTrue
        <5> QED  BY <1>2, <1>6, <2>1, <4>2, <5>1 DEF EndKept
      <4> QED  BY <4>1, <4>2
    <3>2. EndKept(linkRow', new, c \in outdated')
      BY <1>3 DEF EndKept
    <3> QED  BY <1>3, <1>8, <3>1, <3>2, EndsAfter
  <2>3. ASSUME NEW m \in Linkables \ misfollowed'  PROVE WellFollowed(m)'
    <3>1. CASE m = a.model
      <4>1. linkRow'[m] = row /\ call'[c] = new
        BY <1>2, <1>8, <2>1, <3>1 DEF SetCall
      <4>2. Following(m)' /\ Promised(m)' /\ Awaited(m)'
        BY <1>3, <1>4, <3>1, <4>1 DEF Following, Promised, Awaited
      <4> QED  BY <4>2 DEF WellFollowed, Placed, Tended
    <3>2. CASE m # a.model
      <4>1. linkRow'[m] = linkRow[m]
        BY <1>2, <2>1, <3>2
      <4> QED  BY <1>1, <1>3, <1>8, <4>1, CallsAside
    <3> QED  BY <3>1, <3>2
  <2> QED  BY <1>5, <2>2, <2>3
<1> QED  BY <1>1, <1>7, <1>8

\* m is registered at p, by a command or by the pass.
LEMMA RegisteredNow ==
  ASSUME FollowInv, NEW m \in Linkables, NEW p \in Paths, watches' = Register(watches, m, p),
         UNCHANGED <<disk, heard>>
  PROVE  /\ WatchesKept'
         /\ watches'.reg[m] # NoReg /\ watches'.reg[m].parent = FolderOf[p]
         /\ \A o \in Linkables \ {m} : watches'.reg[o] = watches.reg[o]
<1>1. WatchesCounted(watches) /\ NestedIn(disk.folders) /\ WatchesLive(disk.folders, watches, heard)
  BY DEF FollowInv, WatchesKept
<1> DEFINE new == [parent |-> FolderOf[p], watched |-> NearestExisting(FolderOf[p])]
<1>2. PICK w : w = watches
  OBVIOUS
<1>3. /\ WatchesCounted(Register(w, m, p)) /\ Register(w, m, p).reg = [w.reg EXCEPT ![m] = new]
      /\ WatchesLive(disk.folders, w, heard) => WatchesLive(disk.folders, Register(w, m, p), heard)
  <2>1. WatchesCounted(w)
    BY <1>1, <1>2
  <2> QED  BY <1>1, <2>1, Registered
<1>4. watches' = Register(w, m, p)
  BY <1>2
<1>5. WatchesKept'
  BY <1>1, <1>2, <1>3, <1>4 DEF WatchesKept
<1>6. watches'.reg = [watches.reg EXCEPT ![m] = new] /\ watches.reg \in [Linkables -> Registration]
  BY <1>1, <1>2, <1>3, <1>4 DEF WatchesCounted
<1>7. watches'.reg[m] = new /\ \A o \in Linkables \ {m} : watches'.reg[o] = watches.reg[o]
  <2> HIDE DEF new
  <2> QED  BY <1>6
<1>8. new # NoReg /\ new.parent = FolderOf[p]
  BY LinksAssumption, NowhereRegistered
<1> QED  BY <1>5, <1>7, <1>8

\* Of m registered at p, if it stays in question, the row says p.
LEMMA NotMisfollowed ==
  ASSUME NEW m \in Linkables, NEW p, misfollowed' = Misfollows(m, p)
  PROVE  /\ m \notin misfollowed' => Following(m) /\ linkRow[m].path = p
         /\ \A o \in Linkables \ {m} : o \in misfollowed' <=> o \in misfollowed
BY DEF Misfollows

LEMMA FollowFollows ==
  ASSUME FollowInv, NEW c \in Callers, FollowLink(c)
  PROVE  ChecksKept' /\ WatchesKept' /\ EndsKept' /\ \A m \in Linkables \ misfollowed' : WellFollowed(m)'
<1> DEFINE a == call[c]
<1>1. /\ a.pc = "committed" /\ watches' = Register(watches, a.model, a.path) /\ Schedule({a.model})
      /\ misfollowed' = Misfollows(a.model, a.path) /\ SetCall(c, NoCall)
      /\ UNCHANGED <<disk, linkRow, heard, check, outdated, pass, unchecked>>
  BY Zenon DEF FollowLink
<1>2. /\ a.model \in Linkables /\ a.path \in Paths /\ call \in [Callers -> Call] /\ ChecksKept
      /\ NoCall \in Call /\ NoCall.pc = "idle"
  BY <1>1, BlankTrue DEF FollowInv, TruthInv, LinksTyped, CallTrue, NoCall
<1>3. /\ due' \in [Linkables -> Waits]
      /\ \A m \in Linkables : /\ due'[m].queued => due'[m].waiting > 0
                              /\ due[m].waiting > 0 \/ m = a.model => due'[m].waiting > 0
  <2>1. {a.model} \in SUBSET Linkables
    BY <1>2
  <2> QED  BY <1>1, <1>2, <2>1, Scheduled
<1>4. ChecksKept'
  BY <1>1, <1>2, <1>3 DEF ChecksKept, PassTyped, Waits
<1>5. /\ WatchesKept'
      /\ watches'.reg[a.model] # NoReg /\ watches'.reg[a.model].parent = FolderOf[a.path]
      /\ \A o \in Linkables \ {a.model} : watches'.reg[o] = watches.reg[o]
  BY <1>1, <1>2, RegisteredNow
<1>6. EndsKept'
  <2>1. \A x \in Callers : EndKept(linkRow', call[x], x \in outdated')
    BY <1>1, EndsBefore
  <2>2. EndKept(linkRow', NoCall, c \in outdated')
    BY <1>2 DEF EndKept
  <2> QED  BY <1>1, <1>2, <2>1, <2>2, EndsAfter
<1>7. ASSUME NEW m \in Linkables \ misfollowed'  PROVE WellFollowed(m)'
  <2>1. CASE m = a.model
    <3>1. Following(m) /\ linkRow[m].path = a.path
      BY <1>1, <1>2, <1>7, <2>1, NotMisfollowed
    <3>2. Following(m)' /\ Placed(m)' /\ Promised(m)'
      BY <1>1, <1>3, <1>5, <2>1, <3>1 DEF Following, Placed, Promised
    <3> QED  BY <3>2 DEF WellFollowed, Tended
  <2>2. CASE m # a.model
    <3>1. WellFollowed(m)
      BY <1>1, <1>2, <1>7, <2>2, NotMisfollowed DEF FollowInv
    <3>2. \A x \in Callers : call[x].pc \in {"committed", "ended"} /\ call[x].model = m => call'[x] = call[x]
      BY <1>1, <1>2, <2>2 DEF SetCall
    <3>3. watches'.reg[m] = watches.reg[m] /\ (due[m].waiting > 0 => due'[m].waiting > 0)
      BY <1>3, <1>5, <2>2
    <3>4. Promised(m) => Promised(m)'
      BY <1>1, <3>2, <3>3, NoPromiseLost
    <3> QED  BY <1>1, <3>1, <3>2, <3>3, <3>4, Steady
  <2> QED  BY <2>1, <2>2
<1> QED  BY <1>4, <1>5, <1>6, <1>7

LEMMA UnfollowFollows ==
  ASSUME FollowInv, NEW c \in Callers, UnfollowLink(c)
  PROVE  ChecksKept' /\ WatchesKept' /\ EndsKept' /\ \A m \in Linkables \ misfollowed' : WellFollowed(m)'
<1> DEFINE a == call[c]
<1>1. /\ a.pc = "ended" /\ watches' = Unregister(watches, a.model)
      /\ misfollowed' = misfollowed \ {a.model} /\ SetCall(c, NoCall)
      /\ UNCHANGED <<disk, linkRow, heard, due, check, outdated, pass, unchecked>>
  BY Zenon DEF UnfollowLink
<1>2. /\ a.model \in Linkables /\ call \in [Callers -> Call]
      /\ WatchesCounted(watches) /\ NestedIn(disk.folders) /\ WatchesLive(disk.folders, watches, heard)
      /\ NoCall \in Call /\ NoCall.pc = "idle"
  BY <1>1, BlankTrue DEF FollowInv, TruthInv, LinksTyped, CallTrue, WatchesKept, NoCall
<1>3. /\ WatchesCounted(watches') /\ watches'.reg = [watches.reg EXCEPT ![a.model] = NoReg]
      /\ WatchesLive(disk.folders, watches', heard)
  <2>1. PICK w, m : w = watches /\ m = a.model
    OBVIOUS
  <2>2. WatchesCounted(w) /\ m \in Linkables
    BY <1>2, <2>1
  <2>3. /\ WatchesCounted(Unregister(w, m)) /\ Unregister(w, m).reg = [w.reg EXCEPT ![m] = NoReg]
        /\ \A F, h : WatchesLive(F, w, h) => WatchesLive(F, Unregister(w, m), h)
    BY <2>2, Unregistered
  <2>4. watches' = Unregister(w, m)
    BY <1>1, <2>1
  <2> QED  BY <1>2, <2>1, <2>3, <2>4
<1>4. watches'.reg[a.model] = NoReg /\ \A o \in Linkables \ {a.model} : watches'.reg[o] = watches.reg[o]
  BY <1>2, <1>3 DEF WatchesCounted
<1>5. WatchesKept'
  BY <1>1, <1>2, <1>3 DEF WatchesKept
<1>6. ChecksKept'
  BY <1>1, SharesKept
<1>7. EndsKept'
  <2>1. \A x \in Callers : EndKept(linkRow', call[x], x \in outdated')
    BY <1>1, EndsBefore
  <2>2. EndKept(linkRow', NoCall, c \in outdated')
    BY <1>2 DEF EndKept
  <2> QED  BY <1>1, <1>2, <2>1, <2>2, EndsAfter
<1>8. ASSUME NEW m \in Linkables \ misfollowed'  PROVE WellFollowed(m)'
  <2>1. CASE m = a.model
    <3>1. linkRow[m].mode \in {"managed", "deleted"}
      BY <1>1, <2>1, EndsBefore DEF EndKept
    <3>2. ~Following(m)' /\ Released(m)'
      BY <1>1, <1>4, <2>1, <3>1 DEF Following, Released
    <3> QED  BY <3>2 DEF WellFollowed
  <2>2. CASE m # a.model
    <3>1. WellFollowed(m)
      BY <1>1, <1>8, <2>2 DEF FollowInv
    <3>2. \A x \in Callers : call[x].pc \in {"committed", "ended"} /\ call[x].model = m => call'[x] = call[x]
      BY <1>1, <1>2, <2>2 DEF SetCall
    <3>3. watches'.reg[m] = watches.reg[m]
      BY <1>4, <2>2
    <3>4. Promised(m) => Promised(m)'
      BY <1>1, <3>2, <3>3, NoPromiseLost
    <3> QED  BY <1>1, <3>1, <3>2, <3>3, <3>4, Steady
  <2> QED  BY <2>1, <2>2
<1> QED  BY <1>5, <1>6, <1>7, <1>8

LEMMA ChooseFollows ==
  ASSUME FollowInv, NEW c \in Callers, NEW m \in Linkables, NEW p \in Paths, Choose(c, m, p)
  PROVE  ChecksKept' /\ WatchesKept' /\ EndsKept' /\ \A o \in Linkables \ misfollowed' : WellFollowed(o)'
<1> DEFINE new == [pc |-> "staging", model |-> m, path |-> p, stamp |-> disk.file[p]]
<1>1. /\ call[c].pc = "idle" /\ linkRow[m].mode \in {"linked", "absent"} /\ SetCall(c, new) /\ outdated' = outdated \ {c}
      /\ UNCHANGED <<disk, linkRow, watches, heard, due, check, pass, misfollowed, unchecked>>
  BY DEF Choose, Following
<1>2. new \in Call
  BY DEF Call, FollowInv, TruthInv, LinksTyped, DiskTyped
<1>3. ChecksKept' /\ WatchesKept'
  BY <1>1, SharesKept
<1>4. EndsKept'
  <2>1. \A x \in Callers \ {c} : EndKept(linkRow', call[x], x \in outdated')
    BY <1>1, EndsBefore DEF EndKept
  <2>2. EndKept(linkRow', new, c \in outdated')
    BY <1>1 DEF EndKept
  <2> HIDE DEF new
  <2> QED  BY <1>1, <1>2, <2>1, <2>2, EndsAfter
<1>5. \A o \in Linkables \ misfollowed' : WellFollowed(o)'
  <2> HIDE DEF new
  <2> QED  BY <1>1, <1>2, CallsAside
<1> QED  BY <1>3, <1>4, <1>5

LEMMA EndFollows ==
  ASSUME FollowInv, NEW c \in Callers, NEW m \in Linkables, NEW mode \in {"managed", "deleted"}, EndLink(c, m, mode)
  PROVE  ChecksKept' /\ WatchesKept' /\ EndsKept' /\ \A o \in Linkables \ misfollowed' : WellFollowed(o)'
<1> DEFINE row == [NoLink EXCEPT !.mode = mode]
           new == [NoCall EXCEPT !.pc = "ended", !.model = m]
<1>1. /\ call[c].pc = "idle" /\ SaveLink(m, row) /\ SetCall(c, new)
      /\ UNCHANGED <<disk, watches, heard, due, check, pass, misfollowed, unchecked>>
  BY Zenon DEF EndLink
<1>2. new \in Call /\ new.pc = "ended" /\ new.model = m /\ row.mode = mode
  BY DEF Call, NoCall, NoLink
<1>3. /\ linkRow \in [Linkables -> Link] /\ call \in [Callers -> Call]
      /\ linkRow' = [linkRow EXCEPT ![m] = row] /\ outdated' = outdated \cup {x \in Callers : call[x].model = m}
  BY <1>1 DEF FollowInv, TruthInv, LinksTyped, SaveLink
<1> HIDE DEF new, row
<1>4. ChecksKept' /\ WatchesKept'
  BY <1>1, SharesKept
<1>5. EndsKept'
  <2>1. ASSUME NEW x \in Callers  PROVE EndKept(linkRow', call[x], x \in outdated')
    <3>1. CASE call[x].model = m
      BY <1>2, <1>3, <3>1 DEF EndKept
    <3>2. CASE call[x].model # m
      <4>1. call[x].pc # "idle" => call[x].model \in Linkables
        BY DEF FollowInv, TruthInv, CallTrue
      <4> QED  BY <1>3, <3>2, <4>1, EndsBefore DEF EndKept
    <3> QED  BY <3>1, <3>2
  <2>2. EndKept(linkRow', new, c \in outdated')
    BY <1>2, <1>3 DEF EndKept
  <2> QED  BY <1>1, <1>2, <2>1, <2>2, EndsAfter
<1>6. ASSUME NEW o \in Linkables \ misfollowed'  PROVE WellFollowed(o)'
  <2>1. CASE o = m
    <3>1. linkRow'[m] = row /\ call'[c] = new
      BY <1>1, <1>3 DEF SetCall
    <3>2. ~Following(o)' /\ Released(o)'
      BY <1>2, <2>1, <3>1 DEF Following, Released
    <3> QED  BY <3>2 DEF WellFollowed
  <2>2. CASE o # m
    <3>1. linkRow'[o] = linkRow[o]
      BY <1>3, <2>2
    <3> QED  BY <1>1, <1>2, <3>1, CallsAside
  <2> QED  BY <2>1, <2>2
<1> QED  BY <1>4, <1>5, <1>6

LEMMA AskFollows ==
  ASSUME FollowInv, NEW models \in SUBSET Linkables, CheckSources(models)
  PROVE  ChecksKept' /\ WatchesKept' /\ EndsKept' /\ \A o \in Linkables \ misfollowed' : WellFollowed(o)'
<1>1. /\ due' = [m \in Linkables |-> IF m \in models THEN [due[m] EXCEPT !.waiting = @ + 1] ELSE due[m]]
      /\ UNCHANGED <<disk, linkRow, watches, heard, check, call, outdated, pass, misfollowed, unchecked>>
  BY Zenon DEF CheckSources
<1>2. ChecksKept
  BY DEF FollowInv
<1>3. /\ due' \in [Linkables -> Waits]
      /\ \A m \in Linkables : /\ due'[m].queued => due'[m].waiting > 0
                              /\ due[m].waiting > 0 => due'[m].waiting > 0
  BY <1>1, <1>2, AskedFor
<1>4. ChecksKept'
  BY <1>1, <1>2, <1>3 DEF ChecksKept, PassTyped, Waits
<1>5. WatchesKept' /\ EndsKept'
  BY <1>1, SharesKept
<1>6. ASSUME NEW o \in Linkables \ misfollowed'  PROVE WellFollowed(o)'
  <2>1. WellFollowed(o)
    BY <1>1 DEF FollowInv
  <2>2. Promised(o) => Promised(o)'
    BY <1>1, <1>3, NoPromiseLost
  <2> QED  BY <1>1, <2>1, <2>2, Steady
<1> QED  BY <1>4, <1>5, <1>6

LEMMA CallFollows ==
  ASSUME FollowInv, CallStep
  PROVE  ChecksKept' /\ WatchesKept' /\ EndsKept' /\ \A m \in Linkables \ misfollowed' : WellFollowed(m)'
<1>1. IdleCallers # {} => (CHOOSE c \in IdleCallers : TRUE) \in Callers
  BY DEF IdleCallers
<1>2. \/ \E c \in Callers : StageChosen(c) \/ CommitLink(c) \/ FollowLink(c) \/ UnfollowLink(c)
      \/ \E c \in Callers, m \in Linkables : \/ \E p \in Paths : Choose(c, m, p)
                                             \/ \E mode \in {"managed", "deleted"} : EndLink(c, m, mode)
      \/ \E models \in SUBSET Linkables : CheckSources(models)
  BY <1>1, Zenon DEF CallStep
<1> QED  BY <1>2, StageFollows, CommitFollows, FollowFollows, UnfollowFollows, ChooseFollows, EndFollows, AskFollows

(***************************************************************************)
(* The pass of a start.                                                    *)
(***************************************************************************)
LEMMA ListFollows ==
  ASSUME FollowInv, ListLinked
  PROVE  ChecksKept' /\ WatchesKept' /\ EndsKept' /\ \A m \in Linkables \ misfollowed' : WellFollowed(m)'
<1>1. /\ pass.pc = "list" /\ UNCHANGED <<disk, linkRow, watches, heard, due, check, call, outdated, unchecked>>
      /\ \/ /\ pass' = [pc |-> "register", left |-> {m \in Linkables : Following(m)},
                        listed |-> [m \in Linkables |-> linkRow[m].path]]
            /\ UNCHANGED misfollowed
         \/ /\ pass' = NoPass("done") /\ misfollowed' = misfollowed \cup {m \in Linkables : Following(m)}
  BY Zenon DEF ListLinked
<1>2. /\ linkRow \in [Linkables -> Link]
      /\ \A m \in Linkables : Following(m) => linkRow[m].path # Nothing
  BY LinksAssumption DEF FollowInv, TruthInv, LinksTyped, RowTrue, Following
<1>3. ChecksKept'
  <2>1. PassTyped' /\ \A m \in pass'.left : pass'.listed[m] # Nothing
    <3>1. \A m \in Linkables : linkRow[m].path \in Paths \cup {Nothing}
      BY <1>2 DEF Link
    <3> QED  BY <1>1, <1>2, <3>1 DEF PassTyped, NoPass
  <2> QED  BY <1>1, <2>1 DEF FollowInv, ChecksKept
<1>4. WatchesKept' /\ EndsKept'
  BY <1>1, SharesKept
<1>5. ASSUME NEW m \in Linkables \ misfollowed'  PROVE WellFollowed(m)'
  <2>1. WellFollowed(m)
    BY <1>1, <1>5 DEF FollowInv
  <2>2. CASE ~Following(m)
    BY <1>1, <2>1, <2>2 DEF WellFollowed, Following, Released
  <2>3. CASE Following(m)
    <3>1. pass'.pc = "register" /\ m \in pass'.left /\ pass'.listed[m] # Nothing
      BY <1>1, <1>2, <1>5, <2>3
    <3>2. Following(m)' /\ Placed(m)' /\ Tended(m)'
      BY <1>1, <2>3, <3>1 DEF Following, Placed, Awaited, Tended, Promised
    <3> QED  BY <3>2 DEF WellFollowed
  <2> QED  BY <2>2, <2>3
<1> QED  BY <1>3, <1>4, <1>5

LEMMA RegisterFollows ==
  ASSUME FollowInv, NEW m \in Linkables, RegisterListed(m)
  PROVE  ChecksKept' /\ WatchesKept' /\ EndsKept' /\ \A o \in Linkables \ misfollowed' : WellFollowed(o)'
<1> DEFINE p == pass.listed[m]
<1>1. /\ pass.pc = "register" /\ m \in pass.left /\ watches' = Register(watches, m, p)
      /\ misfollowed' = Misfollows(m, p) /\ pass' = [pass EXCEPT !.left = @ \ {m}]
      /\ UNCHANGED <<disk, linkRow, heard, due, check, call, outdated, unchecked>>
  BY Zenon DEF RegisterListed
<1>2. PassTyped /\ p \in Paths /\ p # Nothing
  BY <1>1 DEF FollowInv, ChecksKept, PassTyped
<1>3. /\ PassTyped' /\ pass'.pc = pass.pc /\ pass'.listed = pass.listed /\ pass'.left = pass.left \ {m}
  BY <1>1, <1>2 DEF PassTyped
<1> HIDE DEF p
<1>4. ChecksKept'
  BY <1>1, <1>3 DEF FollowInv, ChecksKept
<1>5. /\ WatchesKept'
      /\ watches'.reg[m] # NoReg /\ watches'.reg[m].parent = FolderOf[p]
      /\ \A o \in Linkables \ {m} : watches'.reg[o] = watches.reg[o]
  BY <1>1, <1>2, RegisteredNow
<1>6. EndsKept'
  BY <1>1, SharesKept
<1>7. ASSUME NEW o \in Linkables \ misfollowed'  PROVE WellFollowed(o)'
  <2>1. CASE o = m
    <3>1. Following(m) /\ linkRow[m].path = p
      BY <1>1, <1>7, <2>1, NotMisfollowed
    <3>2. Following(o)' /\ Placed(o)' /\ Promised(o)'
      BY <1>1, <1>2, <1>3, <1>5, <2>1, <3>1 DEF Following, Placed, Promised, p
    <3> QED  BY <3>2 DEF WellFollowed, Tended
  <2>2. CASE o # m
    <3>1. WellFollowed(o)
      BY <1>1, <1>7, <2>2, NotMisfollowed DEF FollowInv
    <3>2. watches'.reg[o] = watches.reg[o] /\ (o \in pass.left => o \in pass'.left)
      BY <1>3, <1>5, <2>2
    <3>3. /\ Following(o)' = Following(o) /\ (Placed(o) => Placed(o)') /\ (Released(o) => Released(o)')
          /\ Tended(o) => Tended(o)'
      BY <1>1, <1>3, <3>2 DEF Following, Placed, Awaited, Released, Tended, Promised
    <3> QED  BY <3>1, <3>3 DEF WellFollowed
  <2> QED  BY <2>1, <2>2
<1> QED  BY <1>4, <1>5, <1>6, <1>7

LEMMA PassFollows ==
  ASSUME FollowInv, CheckListed
  PROVE  ChecksKept' /\ WatchesKept' /\ EndsKept' /\ \A o \in Linkables \ misfollowed' : WellFollowed(o)'
<1> DEFINE models == {m \in Linkables : pass.listed[m] # Nothing}
<1>1. /\ pass.pc = "register" /\ pass.left = {} /\ pass' = NoPass("done")
      /\ due' = [m \in Linkables |-> IF m \in models THEN [due[m] EXCEPT !.waiting = @ + 1] ELSE due[m]]
      /\ UNCHANGED <<disk, linkRow, watches, heard, check, call, outdated, misfollowed, unchecked>>
  BY Zenon DEF CheckListed
<1>2. ChecksKept
  BY DEF FollowInv
<1>3. /\ due' \in [Linkables -> Waits]
      /\ \A m \in Linkables : /\ due'[m].queued => due'[m].waiting > 0
                              /\ due[m].waiting > 0 \/ m \in models => due'[m].waiting > 0
  <2> HIDE DEF models
  <2> QED  BY <1>1, <1>2, AskedFor
<1>4. ChecksKept'
  BY <1>1, <1>2, <1>3 DEF ChecksKept, PassTyped, NoPass, Waits
<1>5. WatchesKept' /\ EndsKept'
  BY <1>1, SharesKept
<1>6. ASSUME NEW o \in Linkables \ misfollowed'  PROVE WellFollowed(o)'
  <2>1. WellFollowed(o)
    BY <1>1 DEF FollowInv
  <2>2. /\ Following(o)' = Following(o) /\ (Placed(o) => Placed(o)') /\ (Released(o) => Released(o)')
    BY <1>1 DEF Following, Placed, Awaited, Released
  <2>3. Promised(o) => Promised(o)'
    BY <1>1, <1>3 DEF Promised
  <2>4. Tended(o) => Tended(o)'
    BY <1>1, <2>3 DEF Tended
  <2> QED  BY <2>1, <2>2, <2>4 DEF WellFollowed
<1> QED  BY <1>4, <1>5, <1>6

(***************************************************************************)
(* Where Links starts, and starts again.                                   *)
(***************************************************************************)
LEMMA NothingWatched ==
  /\ WatchesCounted(NoWatches) /\ \A F, h : WatchesLive(F, NoWatches, h)
  /\ \A m \in Linkables : NoWatches.reg[m] = NoReg
<1>1. \A d \in Folders : Watching(NoWatches.reg, d) = {}
  BY NowhereRegistered DEF Watching, NoWatches
<1>2. Cardinality({}) = 0
  BY FS_EmptySet
<1>3. NoReg \in Registration
  BY NowhereRegistered
<1>4. /\ NoWatches \in [reg : [Linkables -> Registration], refs : [Folders -> Nat], alive : SUBSET Folders]
      /\ NoWatches.alive = {} /\ \A d \in Folders : NoWatches.refs[d] = 0
  BY <1>3 DEF NoWatches
<1>5. WatchesCounted(NoWatches)
  BY <1>1, <1>2, <1>4 DEF WatchesCounted
<1>6. \A F, h : WatchesLive(F, NoWatches, h)
  BY <1>4 DEF WatchesLive
<1>7. \A m \in Linkables : NoWatches.reg[m] = NoReg
  BY DEF NoWatches
<1> QED  BY <1>5, <1>6, <1>7

\* Where no check, command or event is under way, ChecksKept and EndsKept say nothing.
LEMMA AtRest ==
  /\ \A pc \in {"list", "register", "done"} :
        due = [m \in Linkables |-> NoDue] /\ pass = NoPass(pc) => ChecksKept
  /\ call = [c \in Callers |-> NoCall] => EndsKept
<1>1. NoDue \in Waits /\ NoDue.queued = FALSE
  BY DEF NoDue, Waits
<1>2. ASSUME NEW pc \in {"list", "register", "done"}, due = [m \in Linkables |-> NoDue], pass = NoPass(pc)
      PROVE  ChecksKept
  <2>1. due \in [Linkables -> Waits] /\ \A m \in Linkables : due[m].queued = FALSE
    BY <1>1, <1>2
  <2>2. PassTyped /\ pass.left = {}
    BY <1>2 DEF PassTyped, NoPass
  <2> QED  BY <2>1, <2>2 DEF ChecksKept, Waits
<1>3. call = [c \in Callers |-> NoCall] => EndsKept
  BY DEF EndsKept, NoCall
<1> QED  BY <1>2, <1>3

LEMMA RestartFollows ==
  ASSUME FollowInv, RestartLinks
  PROVE  ChecksKept' /\ WatchesKept' /\ EndsKept' /\ \A o \in Linkables \ misfollowed' : WellFollowed(o)'
<1>1. /\ watches' = NoWatches /\ due' = [m \in Linkables |-> NoDue] /\ call' = [c \in Callers |-> NoCall]
      /\ pass' = NoPass("list") /\ UNCHANGED <<disk, linkRow>>
  BY Zenon DEF RestartLinks
<1>2. NoDue \in Waits /\ NoDue.queued = FALSE
  BY DEF NoDue, Waits
<1>3. ChecksKept'
  <2>1. due' \in [Linkables -> Waits] /\ \A m \in Linkables : due'[m].queued = FALSE
    BY <1>1, <1>2
  <2>2. PassTyped' /\ pass'.left = {}
    BY <1>1 DEF PassTyped, NoPass
  <2> QED  BY <2>1, <2>2 DEF ChecksKept, Waits
<1>4. WatchesKept'
  BY <1>1, NothingWatched DEF FollowInv, WatchesKept
<1>5. EndsKept'
  BY <1>1 DEF EndsKept, NoCall
<1>6. ASSUME NEW o \in Linkables  PROVE WellFollowed(o)'
  <2>1. Placed(o)' /\ Tended(o)' /\ Released(o)'
    BY <1>1, NothingWatched DEF Placed, Awaited, Tended, Promised, Released, NoPass
  <2> QED  BY <2>1 DEF WellFollowed
<1> QED  BY <1>3, <1>4, <1>5, <1>6

\* Every linked Model registered at the nearest folder there is, the watches are as they should be.
LEMMA EverythingWatched ==
  ASSUME \A m \in Linkables : Following(m) => linkRow[m].path \in Paths, NestedIn(disk.folders)
  PROVE  /\ WatchesCounted(AllWatched) /\ \A h : WatchesLive(disk.folders, AllWatched, h)
         /\ \A m \in Linkables :
               AllWatched.reg[m] = IF Following(m)
                                   THEN [parent |-> FolderOf[linkRow[m].path],
                                         watched |-> NearestExisting(FolderOf[linkRow[m].path])] ELSE NoReg
<1> DEFINE home(m) == FolderOf[linkRow[m].path]
           reg == [m \in Linkables |-> IF Following(m)
                                       THEN [parent |-> home(m), watched |-> NearestExisting(home(m))] ELSE NoReg]
           refs == [d \in Folders |-> Cardinality({m \in Linkables : reg[m].watched = d})]
           alive == {d \in Folders : refs[d] > 0}
<1>1. AllWatched = [reg |-> reg, refs |-> refs, alive |-> alive]
  BY Zenon DEF AllWatched
<1>2. \A d \in Folders : refs[d] = Cardinality(Watching(reg, d))
  BY DEF Watching
<1>3. ASSUME NEW m \in Linkables, Following(m)
      PROVE  home(m) \in Folders /\ NearestExisting(home(m)) \in Folders \cap disk.folders
  <2>1. home(m) \in Folders
    BY <1>3, LinksAssumption
  <2> HIDE DEF home
  <2> QED  BY <2>1, NearestExists, NearestThere
<1>4. \A m \in Linkables : reg[m] = IF Following(m) THEN [parent |-> home(m), watched |-> NearestExisting(home(m))] ELSE NoReg
  OBVIOUS
<1>5. reg \in [Linkables -> Registration]
  <2>1. ASSUME NEW m \in Linkables
        PROVE  (IF Following(m) THEN [parent |-> home(m), watched |-> NearestExisting(home(m))] ELSE NoReg) \in Registration
    <3> HIDE DEF home, reg
    <3> QED  BY <1>3, NowhereRegistered DEF Registration
  <2> QED  BY <2>1
<1> HIDE DEF reg, refs, alive
<1>6. ASSUME NEW d \in Folders  PROVE IsFiniteSet(Watching(reg, d)) /\ Cardinality(Watching(reg, d)) \in Nat
  <2>1. Watching(reg, d) \in SUBSET Linkables
    BY DEF Watching
  <2> QED  BY <2>1, FS_Subset, FS_CardinalityType, FoldersAssumption
<1>7. refs \in [Folders -> Nat]
  BY <1>2, <1>6 DEF refs
<1>8. WatchesCounted(AllWatched)
  <2>1. alive \subseteq Folders
    BY DEF alive
  <2> QED  BY <1>1, <1>2, <1>5, <1>7, <2>1 DEF WatchesCounted
<1>9. ASSUME NEW d \in alive  PROVE d \in disk.folders
  <2>1. d \in Folders /\ refs[d] > 0
    BY <1>9 DEF alive
  <2>2. Watching(reg, d) # {}
    BY <1>2, <2>1, FS_EmptySet
  <2>3. PICK m \in Linkables : reg[m].watched = d
    BY <2>2 DEF Watching
  <2>4. reg[m] # NoReg
    BY <1>5, <2>1, <2>3, NowhereRegistered
  <2>5. Following(m)
    BY <1>4, <2>4
  <2>6. reg[m] = [parent |-> home(m), watched |-> NearestExisting(home(m))]
    BY <1>4, <2>5
  <2>7. d = NearestExisting(home(m))
    <3> HIDE DEF home
    <3> QED  BY <2>3, <2>6
  <2> QED  BY <1>3, <2>5, <2>7
<1>10. \A h : WatchesLive(disk.folders, AllWatched, h)
  <2>1. \A d \in Folders : d \in alive <=> refs[d] > 0
    BY DEF alive
  <2> QED  BY <1>1, <1>9, <2>1 DEF WatchesLive
<1> QED  BY <1>1, <1>4, <1>8, <1>10

LEMMA FollowInit == LinksInit => FollowInv
<1> SUFFICES ASSUME LinksInit  PROVE FollowInv
  OBVIOUS
<1>1. TruthInv
  BY TruthInit
<1>2. /\ \/ watches = NoWatches /\ pass = NoPass("list")
         \/ watches = AllWatched /\ pass = NoPass("done")
      /\ due = [m \in Linkables |-> NoDue] /\ check = [m \in Linkables |-> NoCheck]
      /\ call = [c \in Callers |-> NoCall] /\ NestedIn(disk.folders)
  BY DEF LinksInit, DiskNested, NestedIn
<1>3. ChecksKept /\ EndsKept
  BY <1>2, AtRest
<1>4. ASSUME NEW m \in Linkables, Following(m)
      PROVE  linkRow[m].path \in Paths /\ Fresh(disk, linkRow[m])
  <2>1. PICK p \in Paths : disk.file[p] # 0 /\ linkRow[m] = Linkage(p, disk.file[p])
    BY <1>4 DEF LinksInit, Following, NoLink
  <2> QED  BY <2>1 DEF Linkage, Fresh, Content
<1>5. CASE watches = NoWatches /\ pass = NoPass("list")
  <2>1. WatchesKept
    BY <1>2, <1>5, NothingWatched DEF WatchesKept
  <2>2. ASSUME NEW m \in Linkables  PROVE WellFollowed(m)
    <3>1. Placed(m) /\ Tended(m) /\ Released(m)
      BY <1>5, NothingWatched DEF Placed, Awaited, Tended, Promised, Released, NoPass
    <3> QED  BY <3>1 DEF WellFollowed
  <2> QED  BY <1>1, <1>3, <2>1, <2>2 DEF FollowInv
<1>6. CASE watches = AllWatched /\ pass = NoPass("done")
  <2>1. /\ WatchesCounted(AllWatched) /\ \A h : WatchesLive(disk.folders, AllWatched, h)
        /\ \A m \in Linkables :
              AllWatched.reg[m] = IF Following(m)
                                  THEN [parent |-> FolderOf[linkRow[m].path],
                                        watched |-> NearestExisting(FolderOf[linkRow[m].path])] ELSE NoReg
    BY <1>2, <1>4, EverythingWatched
  <2>2. WatchesKept
    BY <1>2, <1>6, <2>1 DEF WatchesKept
  <2>3. ASSUME NEW m \in Linkables  PROVE WellFollowed(m)
    <3>1. CASE ~Following(m)
      BY <1>6, <2>1, <3>1 DEF WellFollowed, Released
    <3>2. CASE Following(m)
      <4> DEFINE f == FolderOf[linkRow[m].path]
      <4>1. watches.reg[m] = [parent |-> f, watched |-> NearestExisting(f)]
        BY <1>6, <2>1, <3>2
      <4>2. f \in Folders
        BY <1>4, <3>2, LinksAssumption
      <4>3. watches.reg[m] # NoReg /\ watches.reg[m].parent = f /\ watches.reg[m].watched = NearestExisting(f)
        <5> HIDE DEF f
        <5> QED  BY <4>1, <4>2, NowhereRegistered
      <4>4. Placed(m) /\ ~Strayed(disk.folders, watches.reg[m])
        BY <4>3, NearestExists DEF Placed, Strayed
      <4>5. check[m].pc = "off"
        BY <1>2 DEF NoCheck
      <4> QED  BY <1>4, <3>2, <4>4, <4>5 DEF WellFollowed, Tended, Sound
    <3> QED  BY <3>1, <3>2
  <2> QED  BY <1>1, <1>3, <2>2, <2>3 DEF FollowInv
<1> QED  BY <1>2, <1>5, <1>6

LEMMA CheckFollows ==
  ASSUME FollowInv, CheckStep
  PROVE  ChecksKept' /\ WatchesKept' /\ EndsKept' /\ \A m \in Linkables \ misfollowed' : WellFollowed(m)'
BY StartFollows, StatFollows, ReadFollows, ApplyFollows, FailureFollows, FollowUpFollows DEF CheckStep

LEMMA FollowStep ==
  ASSUME FollowInv, [LinksNext]_linked
  PROVE  FollowInv'
<1>1. TruthInv'
  BY TruthStep DEF FollowInv
<1> SUFFICES ChecksKept' /\ WatchesKept' /\ EndsKept' /\ \A m \in Linkables \ misfollowed' : WellFollowed(m)'
  BY <1>1 DEF FollowInv
<1>2. CASE UNCHANGED linked
  <2>1. UNCHANGED <<disk, linkRow, watches, heard, due, check, call, outdated, pass, misfollowed, unchecked>>
    BY <1>2 DEF linked
  <2>2. ASSUME NEW m \in Linkables \ misfollowed'  PROVE WellFollowed(m)'
    <3>1. WellFollowed(m) /\ (Promised(m) => Promised(m)')
      BY <2>1, NoPromiseLost DEF FollowInv
    <3> QED  BY <2>1, <3>1, Steady
  <2> QED  BY <2>1, <2>2, SharesKept
<1>3. CASE LinksNext
  BY <1>3, HandleFollows, DiskFollows, CheckFollows, CallFollows, ListFollows, RegisterFollows, PassFollows,
     RestartFollows DEF LinksNext
<1> QED  BY <1>2, <1>3

\* In every reachable state, for any Models, paths, folders and bounds: the watch counts are the
\* registrations', a watch that is not alive is heard of, and a linked Model that is not misfollowed
\* is registered for its path or will be, and is right, being made right, or promised a check.
THEOREM LinksFollowed == LinksSpec => []FollowInv
<1>1. LinksInit => FollowInv
  BY FollowInit
<1>2. FollowInv /\ [LinksNext]_linked => FollowInv'
  BY FollowStep
<1> QED  BY <1>1, <1>2, PTL DEF LinksSpec

\* Whatever happens to files and folders while checks, commands, the startup pass and events are
\* under way, once all is done each linked Model (whose last check did not fail and that was
\* registered in the order of its commits) agrees with its file and is watched, and no other is.
THEOREM NothingEverMissed == LinksSpec => []NothingMissed
<1>1. FollowInv => NothingMissed
  <2> SUFFICES ASSUME FollowInv, Calm, NEW m \in Linkables \ misfollowed
               PROVE  IF Following(m) THEN m \in unchecked \/ (UpToDate(m) /\ Followed(m))
                      ELSE watches.reg[m] = NoReg
    BY DEF NothingMissed
  <2>1. /\ heard = {} /\ pass.pc = "done" /\ check[m].pc = "off" /\ due[m].waiting = 0
        /\ \A c \in Callers : call[c].pc = "idle"
    BY DEF Calm
  <2>2. ~Promised(m) /\ ~Awaited(m)
    BY <2>1 DEF Promised, Awaited
  <2>3. WellFollowed(m) /\ WatchesCounted(watches) /\ WatchesLive(disk.folders, watches, heard)
    BY DEF FollowInv, WatchesKept
  <2>4. CASE ~Following(m)
    BY <2>1, <2>3, <2>4 DEF WellFollowed, Released
  <2>5. CASE Following(m) /\ m \notin unchecked
    <3>1. /\ watches.reg[m] # NoReg /\ watches.reg[m].parent = FolderOf[linkRow[m].path]
          /\ ~Strayed(disk.folders, watches.reg[m]) /\ Fresh(disk, linkRow[m])
      BY <2>1, <2>2, <2>3, <2>5 DEF WellFollowed, Placed, Tended, Sound
    <3>2. UpToDate(m)
      BY <3>1 DEF Fresh, UpToDate, Content
    <3>3. watches.reg[m].watched = NearestExisting(FolderOf[linkRow[m].path])
      BY <3>1, NearestExists DEF Strayed
    <3>4. watches.reg[m].watched \in watches.alive
      <4>1. PICK w : w = watches
        OBVIOUS
      <4>2. w.reg[m].watched \in Folders /\ w.refs[w.reg[m].watched] > 0
        BY <2>3, <3>1, <4>1, WatchedCounts
      <4> QED  BY <2>1, <2>3, <4>1, <4>2 DEF WatchesLive
    <3> QED  BY <2>5, <3>2, <3>3, <3>4 DEF Followed
  <2> QED  BY <2>4, <2>5
<1> QED  BY <1>1, LinksFollowed, PTL

(***************************************************************************)
(* Legacy.                                                                 *)
(***************************************************************************)
Held == Texts \cup {Absent}
Names == [LegacyFiles -> Held]
Dir == [of : Names, file : Names, manifest : BOOLEAN]
Items == [kind : {"migrated", "changed", "ignored"}, text : Held, out : BOOLEAN]
Warnings == [code : {"changed", "ignored", "incomplete", "blocked", "defaulted"}, file : LegacyFiles, text : Held]
Todos == {<<>>, <<Settings>>, <<Printers>>, <<Settings, Printers>>, <<Printers, Settings>>}
Importing == {"copy", "check", "commit"}
Archiving == {"archive", "copyout", "takeout"}
Migration == [pc : {"off", "settings", "printers", "stage", "done"} \cup Importing \cup Archiving,
              read : Names, from : Names, dir : Nat, todo : Todos, plan : Seq(Items),
              writes : BOOLEAN, end : SUBSET Warnings]

LegacyTyped ==
    /\ place \in Names /\ dirs \in Seq(Dir) /\ imported \in Names
    /\ completed \in BOOLEAN /\ calm \in BOOLEAN /\ migration \in Migration

\* The file being archived, and those still to come.
Current == Head(migration.todo)
Left(todo) == {todo[i] : i \in DOMAIN todo}

\* An import is of what was read and is held in its directory; a resumed archival is of what
\* was imported, with the directory that holds it or with none.
Phases ==
    /\ migration.pc \in {"settings", "printers", "stage"} \cup Importing => ~completed
    /\ migration.pc \in Importing => migration.from = migration.read
    /\ migration.pc = "commit" => ~Stops(migration.from)
    /\ migration.pc \in Archiving =>
          completed /\ migration.from = imported /\ migration.read \in {NoTexts, imported}
    /\ migration.pc \in {"off", "done"} => migration = NoRun(migration.pc)
    /\ migration.pc \in {"copyout", "takeout"} => migration.todo # <<>>
    /\ migration.pc = "takeout" => migration.plan # <<>>
    /\ completed => ~Stops(imported)

Staging ==
    /\ migration.pc \in Importing => migration.dir \in DOMAIN dirs
    /\ migration.pc = "copy" => dirs[migration.dir].of = migration.from
    /\ migration.pc \in {"check", "commit"} => dirs[migration.dir].file = migration.from
    /\ migration.pc \in Archiving /\ migration.dir # 0 =>
          migration.dir \in DOMAIN dirs /\ dirs[migration.dir].file = migration.from

Saved(n) == Archived(n, "migrated", imported[n]) \in archive
Kept(n) == Saved(n) \/ \E i \in DOMAIN dirs : dirs[i].file[n] = imported[n]

\* An archival that goes by a directory has archived what was imported of the files it is done
\* with, and will have of the one it is at.
Archival ==
    /\ completed => \A n \in LegacyFiles : imported[n] # Absent => Kept(n)
    /\ migration.pc \in Archiving /\ migration.dir # 0 =>
          \A n \in LegacyFiles \ Left(migration.todo) : imported[n] # Absent => Saved(n)
    /\ migration.pc \in {"copyout", "takeout"} /\ migration.dir # 0 /\ imported[Current] # Absent =>
          \/ Saved(Current)
          \/ \E k \in DOMAIN migration.plan :
                migration.plan[k].kind = "migrated" /\ migration.plan[k].text = imported[Current]
    /\ migration.pc = "takeout" =>
          Archived(Current, Head(migration.plan).kind, Head(migration.plan).text) \in archive
    /\ \A t \in taken : IsArchived(t[1], t[2])

\* While nothing disturbs it, a run leaves nothing at the places it is done with, and what is
\* at the one it works on is what it is about to take out.
Clearing == calm =>
    /\ migration.pc \in Archiving \cup {"done"} => \A n \in LegacyFiles \ Left(migration.todo) : place[n] = Absent
    /\ migration.pc \in {"copyout", "takeout"} =>
          \/ place[Current] = Absent
          \/ \E k \in DOMAIN migration.plan : migration.plan[k].out /\ migration.plan[k].text = place[Current]

\* The inductive invariant behind LegacyHeld.
LegacyInv == LegacyTyped /\ Phases /\ Staging /\ Archival /\ Clearing

(***************************************************************************)
(* Files, plans and directories.                                           *)
(***************************************************************************)
LEMMA TodoTail ==
  ASSUME NEW todo \in Todos, todo # <<>>
  PROVE  /\ Head(todo) \in LegacyFiles /\ Head(todo) \in Left(todo) /\ Tail(todo) \in Todos
         /\ Left(Tail(todo)) = Left(todo) \ {Head(todo)}
<1> USE LegacyAssumption DEF Todos, Left, LegacyFiles
<1>1. ASSUME NEW n \in LegacyFiles, todo = <<n>>
      PROVE  /\ Head(todo) = n /\ Tail(todo) = <<>>
             /\ Left(todo) = {n} /\ Left(<<>>) = {}
  BY <1>1
<1>2. CASE todo = <<Settings, Printers>>
  <2>1. Tail(todo) = <<Printers>>
    BY <1>2
  <2>2. Left(todo) = {Settings, Printers} /\ Left(<<Printers>>) = {Printers}
    BY <1>2
  <2> QED  BY <1>2, <2>1, <2>2
<1>3. CASE todo = <<Printers, Settings>>
  <2>1. Tail(todo) = <<Settings>>
    BY <1>3
  <2>2. Left(todo) = {Settings, Printers} /\ Left(<<Settings>>) = {Settings}
    BY <1>3
  <2> QED  BY <1>3, <2>1, <2>2
<1> QED  BY <1>1, <1>2, <1>3

LEMMA LeftAll ==
  Left(<<>>) = {} /\ Left(<<Settings, Printers>>) = LegacyFiles /\ Left(<<Printers, Settings>>) = LegacyFiles
BY DEF Left, LegacyFiles

LEMMA PlanTail ==
  ASSUME NEW plan \in Seq(Items), plan # <<>>
  PROVE  /\ Head(plan) \in Items /\ Tail(plan) \in Seq(Items)
         /\ \A k \in DOMAIN plan : plan[k] = Head(plan) \/ \E i \in DOMAIN Tail(plan) : Tail(plan)[i] = plan[k]
<1>1. /\ Len(plan) \in Nat /\ Len(plan) > 0 /\ DOMAIN plan = 1..Len(plan) /\ Head(plan) = plan[1]
      /\ DOMAIN Tail(plan) = 1..(Len(plan) - 1) /\ \A i \in 1..(Len(plan) - 1) : Tail(plan)[i] = plan[i + 1]
  OBVIOUS
<1>2. ASSUME NEW k \in DOMAIN plan, k # 1
      PROVE  k - 1 \in DOMAIN Tail(plan) /\ Tail(plan)[k - 1] = plan[k]
  BY <1>1, <1>2
<1> QED  BY <1>1, <1>2

LEMMA PlansTyped ==
  ASSUME NEW from \in Held, NEW current \in Held, NEW n \in LegacyFiles
  PROVE  /\ StagedPlan(from, current) \in Seq(Items) /\ PlainPlan(from, current) \in Seq(Items)
         /\ StagedWarnings(n, from, current) \subseteq Warnings /\ PlainWarnings(n, from, current) \subseteq Warnings
<1>1. \A kind \in {"migrated", "changed", "ignored"}, text \in Held, out \in BOOLEAN : Item(kind, text, out) \in Items
  BY DEF Item, Items
<1>2. StagedPlan(from, current) \in Seq(Items) /\ PlainPlan(from, current) \in Seq(Items)
  <2>1. \A x, y \in Items : <<>> \in Seq(Items) /\ <<x>> \in Seq(Items) /\ <<x, y>> \in Seq(Items)
    OBVIOUS
  <2>2. PlainPlan(from, current) \in Seq(Items)
    BY <1>1, <2>1 DEF PlainPlan
  <2>3. CASE from # Absent /\ current = from
    BY <1>1, <2>1, <2>2, <2>3 DEF StagedPlan
  <2>4. CASE from # Absent /\ current \notin {from, Absent}
    BY <1>1, <2>1, <2>2, <2>4 DEF StagedPlan
  <2>5. CASE from # Absent /\ current = Absent
    BY <1>1, <2>1, <2>2, <2>5 DEF StagedPlan
  <2>6. CASE from = Absent
    BY <1>1, <2>1, <2>2, <2>6 DEF StagedPlan
  <2> QED  BY <2>3, <2>4, <2>5, <2>6
<1>3. StagedWarnings(n, from, current) \subseteq Warnings /\ PlainWarnings(n, from, current) \subseteq Warnings
  BY DEF StagedWarnings, PlainWarnings, Warning, Warnings
<1> QED  BY <1>2, <1>3

\* What a plan archives: with a directory to go by the text that was imported, and in any case
\* whatever is at the place.
LEMMA PlansKeep ==
  ASSUME NEW from \in Held, NEW current \in Held
  PROVE  /\ from # Absent => \E k \in DOMAIN StagedPlan(from, current) :
               StagedPlan(from, current)[k].kind = "migrated" /\ StagedPlan(from, current)[k].text = from
         /\ current # Absent =>
               /\ \E k \in DOMAIN StagedPlan(from, current) :
                     StagedPlan(from, current)[k].out /\ StagedPlan(from, current)[k].text = current
               /\ \E k \in DOMAIN PlainPlan(from, current) :
                     PlainPlan(from, current)[k].out /\ PlainPlan(from, current)[k].text = current
<1> USE DEF StagedPlan, PlainPlan, Item
<1>1. CASE from # Absent /\ current = from
  BY <1>1
<1>2. CASE from # Absent /\ current \notin {from, Absent}
  BY <1>2
<1>3. CASE from # Absent /\ current = Absent
  BY <1>3
<1>4. CASE from = Absent
  BY <1>4
<1> QED  BY <1>1, <1>2, <1>3, <1>4

LEMMA ReusableHolds ==
  ASSUME NEW want, Reusable(want) # 0
  PROVE  /\ Reusable(want) \in DOMAIN dirs
         /\ dirs[Reusable(want)].of = want /\ dirs[Reusable(want)].file = want
<1> DEFINE ends == {i \in DOMAIN dirs : ~dirs[i].manifest \/ dirs[i].of = want}
           hits == {i \in ends : dirs[i].manifest /\ dirs[i].file = want /\ \A j \in ends : i <= j}
<1>1. Reusable(want) = IF hits = {} THEN 0 ELSE CHOOSE i \in hits : TRUE
  BY Zenon DEF Reusable
<1>2. Reusable(want) \in hits
  <2> HIDE DEF hits
  <2> QED  BY <1>1, Zenon
<1> QED  BY <1>2

LEMMA Removed ==
  ASSUME dirs \in Seq(Dir), NEW i \in DOMAIN dirs
  PROVE  RemoveAt(dirs, i) \in Seq(Dir)
BY DEF RemoveAt

LEMMA NoRunTyped ==
  ASSUME NEW pc \in {"off", "settings", "printers", "stage", "done"} \cup Importing \cup Archiving
  PROVE  NoRun(pc) \in Migration /\ NoTexts \in Names
<1>1. NoTexts \in Names
  BY DEF NoTexts, Names, Held
<1>2. <<>> \in Seq(Items) /\ <<>> \in Todos
  BY DEF Todos
<1> QED  BY <1>1, <1>2 DEF NoRun, Migration

\* A run that begins or ends has nothing under way.
LEMMA Rest ==
  ASSUME LegacyInv, NEW pc \in {"off", "settings"}, migration' = NoRun(pc), pc = "settings" => ~completed,
         UNCHANGED <<place, dirs, archive, completed, imported, taken>>, calm' \in BOOLEAN
  PROVE  LegacyInv'
<1> USE DEF LegacyInv
<1>1. LegacyTyped'
  BY NoRunTyped DEF LegacyTyped
<1>2. migration'.pc = pc
  BY DEF NoRun
<1>3. Phases'
  BY <1>2 DEF Phases, Importing, Archiving, Stops
<1>4. Staging'
  BY <1>2 DEF Staging, Importing, Archiving
<1>5. Archival'
  BY <1>2 DEF Archival, Archiving, Kept, Saved, IsArchived
<1>6. Clearing'
  BY <1>2 DEF Clearing, Archiving
<1> QED  BY <1>1, <1>3, <1>4, <1>5, <1>6

LEMMA StartKeeps == ASSUME LegacyInv, StartLegacy  PROVE LegacyInv'
<1> DEFINE i == Reusable(imported)
           todo == IF i # 0 THEN <<Settings, Printers>> ELSE <<Printers, Settings>>
<1>1. CASE ~completed
  BY <1>1, Rest DEF StartLegacy
<1>2. CASE completed
  <2> USE DEF LegacyInv
  <2> HIDE DEF i
  <2>1. /\ migration' = [NoRun("archive") EXCEPT !.dir = i, !.from = imported, !.todo = todo]
        /\ calm' = TRUE /\ UNCHANGED <<place, dirs, archive, completed, imported, warned, taken>>
    BY <1>2 DEF StartLegacy, i
  <2>2. i = 0 \/ (i \in DOMAIN dirs /\ dirs[i].file = imported)
    BY ReusableHolds DEF i
  <2>3. i \in Nat /\ todo \in Todos /\ Left(todo) = LegacyFiles
    BY <2>2, LeftAll DEF LegacyTyped, Todos
  <2> HIDE DEF todo
  <2>4. /\ migration' \in Migration /\ migration'.pc = "archive" /\ migration'.dir = i
        /\ migration'.from = imported /\ migration'.todo = todo /\ migration'.read = NoTexts
    BY <2>1, <2>3, NoRunTyped DEF NoRun, Migration, LegacyTyped, Archiving
  <2>5. LegacyTyped'
    BY <2>1, <2>4 DEF LegacyTyped
  <2>6. Phases'
    BY <1>2, <2>1, <2>4 DEF Phases, Importing, Archiving, Stops
  <2>7. Staging'
    BY <2>1, <2>2, <2>4 DEF Staging, Importing, Archiving
  <2>8. Archival'
    BY <2>1, <2>3, <2>4 DEF Archival, Archiving, Kept, Saved, IsArchived
  <2>9. Clearing'
    BY <2>1, <2>3, <2>4 DEF Clearing, Archiving
  <2> QED  BY <2>5, <2>6, <2>7, <2>8, <2>9
<1> QED  BY <1>1, <1>2 DEF LegacyInv, LegacyTyped

LEMMA ReadKeeps == ASSUME LegacyInv, NEW n \in LegacyFiles, ReadFile(n)  PROVE LegacyInv'
<1> USE DEF LegacyInv
<1>1. /\ migration.pc \in {"settings", "printers"} /\ migration'.pc \in {"printers", "stage"}
      /\ migration' \in Migration /\ migration'.dir = migration.dir
      /\ UNCHANGED <<place, dirs, archive, completed, imported, taken, calm>>
  BY DEF ReadFile, LegacyTyped, Migration, Names
<1>2. LegacyTyped'
  BY <1>1 DEF LegacyTyped
<1>3. Phases'
  BY <1>1 DEF Phases, Importing, Archiving, Stops
<1>4. Staging'
  BY <1>1 DEF Staging, Importing, Archiving
<1>5. Archival'
  BY <1>1 DEF Archival, Archiving, Kept, Saved, IsArchived
<1>6. Clearing'
  BY <1>1 DEF Clearing, Archiving
<1> QED  BY <1>2, <1>3, <1>4, <1>5, <1>6

\* While nothing has been imported the directories may be anything.
LEMMA StageKeeps ==
  ASSUME LegacyInv, ~completed, dirs' \in Seq(Dir), migration' \in Migration, migration'.pc \in Importing,
         migration'.from = migration'.read, migration'.pc = "commit" => ~Stops(migration'.from),
         migration'.dir \in DOMAIN dirs',
         migration'.pc = "copy" => dirs'[migration'.dir].of = migration'.from,
         migration'.pc \in {"check", "commit"} => dirs'[migration'.dir].file = migration'.from,
         UNCHANGED <<place, archive, completed, imported, taken>>, calm' \in BOOLEAN
  PROVE  LegacyInv'
<1> USE DEF LegacyInv
<1>1. LegacyTyped'
  BY DEF LegacyTyped
<1>2. Phases'
  BY DEF Phases, Importing, Archiving, Stops
<1>3. Staging'
  BY DEF Staging, Importing, Archiving
<1>4. Archival'
  BY DEF Archival, Archiving, Importing, IsArchived
<1>5. Clearing'
  BY DEF Clearing, Archiving, Importing
<1> QED  BY <1>1, <1>2, <1>3, <1>4, <1>5

LEMMA StageInputsKeep == ASSUME LegacyInv, StageInputs  PROVE LegacyInv'
<1> USE DEF LegacyInv
<1> DEFINE want == migration.read
           i == Reusable(want)
           new == [of |-> want, file |-> NoTexts, manifest |-> FALSE]
<1>1. /\ ~completed /\ want \in Names /\ new \in Dir /\ migration \in Migration /\ dirs \in Seq(Dir)
      /\ UNCHANGED <<place, archive, completed, imported, taken>>
  BY NoRunTyped DEF StageInputs, Phases, LegacyTyped, Migration, Dir
<1>2. CASE i # 0 /\ migration' = [migration EXCEPT !.pc = "check", !.dir = i, !.from = dirs[i].of] /\ UNCHANGED <<dirs, calm>>
  <2>1. i \in DOMAIN dirs /\ i \in Nat /\ dirs[i].of = want /\ dirs[i].file = want
    BY <1>1, <1>2, ReusableHolds
  <2> HIDE DEF i
  <2>2. /\ migration' \in Migration /\ migration'.pc = "check" /\ migration'.dir = i
        /\ migration'.from = want /\ migration'.read = want
    BY <1>1, <1>2, <2>1 DEF Migration, Importing
  <2> QED  BY <1>1, <1>2, <2>1, <2>2, StageKeeps DEF LegacyTyped, Importing
<1>3. ASSUME NEW j \in {1, 2}, dirs' \in Seq(Dir), j \in DOMAIN dirs', dirs'[j] = new,
             migration' = [migration EXCEPT !.pc = "copy", !.dir = j, !.from = want], calm' \in BOOLEAN
      PROVE  LegacyInv'
  <2> HIDE DEF new, i
  <2>1. /\ migration' \in Migration /\ migration'.pc = "copy" /\ migration'.dir = j
        /\ migration'.from = want /\ migration'.read = want
    <3>1. migration' = [migration EXCEPT !.pc = "copy", !.dir = j, !.from = want] /\ j \in Nat /\ migration.read = want
      BY <1>3
    <3> HIDE DEF want
    <3> QED  BY <1>1, <3>1 DEF Migration, Importing
  <2>2. dirs'[migration'.dir].of = migration'.from
    BY <1>3, <2>1 DEF new
  <2> QED  BY <1>1, <1>3, <2>1, <2>2, StageKeeps DEF Importing
<1>4. ASSUME dirs' = <<new>>, migration' = [migration EXCEPT !.pc = "copy", !.dir = 1, !.from = want], UNCHANGED calm
      PROVE  LegacyInv'
  <2> HIDE DEF new
  <2> QED  BY <1>1, <1>4, <1>3 DEF LegacyTyped
<1>5. ASSUME dirs # <<>>, NEW old \in Partly(Head(dirs)), NEW j \in {1, 2}, dirs' = IF j = 1 THEN <<new, old>> ELSE <<old, new>>,
             migration' = [migration EXCEPT !.pc = "copy", !.dir = j, !.from = want], calm' \in BOOLEAN
      PROVE  LegacyInv'
  <2>1. Head(dirs) \in Dir
    BY <1>1, <1>5
  <2>2. old \in Dir
    BY <2>1, <1>5 DEF Partly, Dir, Names, Held
  <2> HIDE DEF new
  <2>3. dirs' \in Seq(Dir) /\ j \in DOMAIN dirs' /\ dirs'[j] = new
    BY <1>1, <1>5, <2>2
  <2> QED  BY <1>3, <1>5, <2>3
<1> QED  BY <1>1, <1>2, <1>4, <1>5, Zenon DEF StageInputs, Fault

LEMMA StageFileKeeps == ASSUME LegacyInv, StageFile  PROVE LegacyInv'
<1> USE DEF LegacyInv
<1> DEFINE i == migration.dir
           d == dirs[i]
           left == {n \in LegacyFiles : d.file[n] # d.of[n]}
<1>1. /\ migration.pc = "copy" /\ ~completed /\ i \in DOMAIN dirs /\ dirs \in Seq(Dir) /\ d \in Dir
      /\ migration \in Migration /\ migration.from = migration.read /\ d.of = migration.from
      /\ UNCHANGED <<place, archive, completed, imported, taken, calm>>
  BY DEF StageFile, Phases, Staging, LegacyTyped, Importing
<1>2. CASE left = {}
  <2>1. dirs' = [dirs EXCEPT ![i].manifest = TRUE] /\ migration' = [migration EXCEPT !.pc = "check"]
    BY <1>2 DEF StageFile
  <2>2. d.file = d.of
    BY <1>1, <1>2 DEF Dir, Names
  <2>3. dirs' = [dirs EXCEPT ![i] = [d EXCEPT !.manifest = TRUE]] /\ [d EXCEPT !.manifest = TRUE] \in Dir
    BY <1>1, <2>1 DEF Dir
  <2>4. dirs' \in Seq(Dir) /\ DOMAIN dirs' = DOMAIN dirs /\ dirs'[i].file = d.file
    BY <1>1, <2>3 DEF Dir
  <2>5. /\ migration' \in Migration /\ migration'.pc = "check" /\ migration'.dir = i
        /\ migration'.from = migration.from /\ migration'.read = migration.read
    BY <1>1, <2>1 DEF Migration, Importing
  <2> QED  BY <1>1, <2>2, <2>4, <2>5, StageKeeps DEF Importing, LegacyTyped
<1>3. CASE left # {}
  <2>1. PICK n \in LegacyFiles : dirs' = [dirs EXCEPT ![i].file[n] = d.of[n]] /\ UNCHANGED migration
    BY <1>3 DEF StageFile, LegacyFiles
  <2> DEFINE new == [d EXCEPT !.file[n] = d.of[n]]
  <2>2. dirs' = [dirs EXCEPT ![i] = new]
    BY <1>1, <2>1
  <2>3. new \in Dir /\ new.of = d.of
    BY <1>1 DEF Dir, Names
  <2> HIDE DEF new
  <2>4. dirs' \in Seq(Dir) /\ DOMAIN dirs' = DOMAIN dirs /\ dirs'[i] = new
    BY <1>1, <2>2, <2>3
  <2> QED  BY <1>1, <2>1, <2>3, <2>4, StageKeeps DEF Importing, LegacyTyped
<1> QED  BY <1>2, <1>3

LEMMA ImportKeeps == ASSUME LegacyInv, CheckInputs \/ CommitImport  PROVE LegacyInv'
<1> USE DEF LegacyInv
<1>1. CASE CheckInputs /\ Stops(migration.from)
  BY <1>1, Rest DEF CheckInputs, LegacyTyped
<1>2. CASE CheckInputs /\ ~Stops(migration.from)
  <2>1. /\ migration.pc = "check" /\ migration' = [migration EXCEPT !.pc = "commit"]
        /\ UNCHANGED <<place, dirs, archive, completed, imported, taken, calm>>
    BY <1>2 DEF CheckInputs
  <2>2. /\ migration' \in Migration /\ migration'.pc = "commit" /\ migration'.dir = migration.dir
        /\ migration'.from = migration.from /\ migration'.read = migration.read
    BY <2>1 DEF LegacyTyped, Migration, Importing
  <2>3. /\ ~completed /\ migration.from = migration.read /\ migration.dir \in DOMAIN dirs
        /\ dirs[migration.dir].file = migration.from
    BY <2>1 DEF Phases, Staging, Importing
  <2> QED  BY <1>2, <2>1, <2>2, <2>3, StageKeeps DEF LegacyTyped, Importing
<1>3. CASE CommitImport
  <2>1. /\ migration.pc = "commit" /\ completed' = TRUE /\ imported' = migration.from
        /\ migration' = [migration EXCEPT !.pc = "archive", !.todo = <<Settings, Printers>>]
        /\ UNCHANGED <<place, dirs, archive, taken, calm>>
    BY <1>3 DEF CommitImport
  <2>2. /\ migration' \in Migration /\ migration'.pc = "archive" /\ migration'.dir = migration.dir
        /\ migration'.from = migration.from /\ migration'.read = migration.read
        /\ Left(migration'.todo) = LegacyFiles
    BY <2>1, LeftAll DEF LegacyTyped, Migration, Archiving, Todos
  <2>3. /\ ~Stops(migration.from) /\ migration.from = migration.read /\ migration.dir \in DOMAIN dirs
        /\ dirs[migration.dir].file = migration.from
    BY <2>1 DEF Phases, Staging, Importing
  <2>4. LegacyTyped'
    BY <2>1, <2>2 DEF LegacyTyped, Migration
  <2>5. Phases'
    BY <2>1, <2>2, <2>3 DEF Phases, Importing, Archiving, Stops
  <2>6. Staging'
    BY <2>1, <2>2, <2>3 DEF Staging, Importing, Archiving
  <2>7. \A n \in LegacyFiles : Kept(n)'
    BY <2>1, <2>3 DEF Kept
  <2>8. Archival'
    BY <2>1, <2>2, <2>7 DEF Archival, Archiving, IsArchived
  <2>9. Clearing'
    BY <2>1, <2>2 DEF Clearing, Archiving
  <2> QED  BY <2>4, <2>5, <2>6, <2>8, <2>9
<1> QED  BY <1>1, <1>2, <1>3

LEMMA DisturbanceKeeps ==
  ASSUME LegacyInv, StartFails \/ CrashLegacy \/ (\E n \in LegacyFiles : EditFile(n)) \/ UNCHANGED legacy
  PROVE  LegacyInv'
<1> USE DEF LegacyInv
<1>1. CASE StartFails \/ CrashLegacy
  BY <1>1, Rest DEF StartFails, CrashLegacy, Fault
<1>2. CASE \E n \in LegacyFiles : EditFile(n)
  <2>1. /\ place' \in Names /\ calm' = FALSE
        /\ UNCHANGED <<dirs, archive, completed, imported, warned, migration, taken>>
    BY <1>2 DEF EditFile, LegacyTyped, Names, Held
  <2>2. LegacyTyped'
    BY <2>1 DEF LegacyTyped
  <2>3. Phases' /\ Staging'
    BY <2>1 DEF Phases, Staging, Stops
  <2>4. Archival' /\ Clearing'
    BY <2>1 DEF Archival, Kept, Saved, IsArchived, Current, Clearing
  <2> QED  BY <2>2, <2>3, <2>4
<1>3. CASE UNCHANGED legacy
  <2>1. LegacyTyped' /\ Phases' /\ Staging'
    BY <1>3 DEF legacy, LegacyTyped, Phases, Staging, Stops
  <2>2. Archival' /\ Clearing'
    BY <1>3 DEF legacy, Archival, Kept, Saved, IsArchived, Current, Clearing
  <2> QED  BY <2>1, <2>2
<1> QED  BY <1>1, <1>2, <1>3

(***************************************************************************)
(* Archival.                                                               *)
(***************************************************************************)
LEMMA PlanKeeps == ASSUME LegacyInv, PlanFile  PROVE LegacyInv'
<1> USE DEF LegacyInv
<1> DEFINE n == Current
           from == migration.from[n]
           staged == migration.dir # 0
           plan == IF staged THEN StagedPlan(from, place[n]) ELSE PlainPlan(from, place[n])
           end == IF staged THEN StagedWarnings(n, from, place[n]) ELSE PlainWarnings(n, from, place[n])
<1>1. /\ migration.pc = "archive" /\ migration.todo # <<>>
      /\ migration' = [migration EXCEPT !.pc = "copyout", !.plan = plan, !.writes = plan # <<>>, !.end = end]
      /\ UNCHANGED <<place, dirs, archive, completed, imported, warned, taken, calm>>
  BY DEF PlanFile, Current
<1>2. completed /\ migration.from = imported /\ n \in LegacyFiles /\ migration \in Migration
  BY <1>1, TodoTail DEF Phases, Archiving, Current, LegacyTyped, Migration
<1>3. from \in Held /\ place[n] \in Held /\ from = imported[n]
  BY <1>2 DEF LegacyTyped, Names
<1>4. plan \in Seq(Items) /\ end \subseteq Warnings
  BY <1>2, <1>3, PlansTyped
<1>5. staged /\ imported[n] # Absent => \E k \in DOMAIN plan : plan[k].kind = "migrated" /\ plan[k].text = imported[n]
  BY <1>3, PlansKeep
<1>6. place[n] # Absent => \E k \in DOMAIN plan : plan[k].out /\ plan[k].text = place[n]
  BY <1>3, PlansKeep
<1> HIDE DEF plan, end
<1>7. /\ migration' \in Migration /\ migration'.pc = "copyout" /\ migration'.plan = plan
      /\ migration'.dir = migration.dir /\ migration'.from = migration.from /\ migration'.read = migration.read
      /\ migration'.todo = migration.todo
  BY <1>1, <1>2, <1>4 DEF Migration, Archiving
<1>8. n' = n
  BY <1>7 DEF Current
<1> HIDE DEF n
<1>9. LegacyTyped'
  BY <1>1, <1>7 DEF LegacyTyped
<1>10. Phases'
  BY <1>1, <1>7 DEF Phases, Importing, Archiving, Stops
<1>11. Staging'
  BY <1>1, <1>7 DEF Staging, Importing, Archiving
<1>12. Archival'
  BY <1>1, <1>5, <1>7, <1>8 DEF Archival, Archiving, Kept, Saved, IsArchived, n
<1>13. Clearing'
  BY <1>1, <1>6, <1>7, <1>8 DEF Clearing, Archiving, n
<1> QED  BY <1>9, <1>10, <1>11, <1>12, <1>13

LEMMA CopyKeeps == ASSUME LegacyInv, CopyOut  PROVE LegacyInv'
<1> USE DEF LegacyInv
<1> DEFINE n == Current
           plan == migration.plan
           item == Head(plan)
           copy == Archived(n, item.kind, item.text)
<1>1. /\ migration.pc = "copyout" /\ plan # <<>> /\ archive' = archive \cup {copy}
      /\ migration' = IF item.out THEN [migration EXCEPT !.pc = "takeout"] ELSE [migration EXCEPT !.plan = Tail(@)]
      /\ UNCHANGED <<place, dirs, completed, imported, warned, taken, calm>>
  BY DEF CopyOut, Current
<1>2. /\ migration \in Migration /\ plan \in Seq(Items) /\ item \in Items /\ Tail(plan) \in Seq(Items)
      /\ \A k \in DOMAIN plan : plan[k] = item \/ \E i \in DOMAIN Tail(plan) : Tail(plan)[i] = plan[k]
  BY <1>1, PlanTail DEF LegacyTyped, Migration
<1>3. /\ migration' \in Migration /\ migration'.dir = migration.dir /\ migration'.from = migration.from
      /\ migration'.read = migration.read /\ migration'.todo = migration.todo
      /\ migration'.pc \in {"copyout", "takeout"}
      /\ migration'.pc = "takeout" => migration'.plan = plan
      /\ migration'.pc = "copyout" => migration'.plan = Tail(plan) /\ ~item.out
  BY <1>1, <1>2 DEF Migration, Archiving
<1>4. n' = n
  BY <1>3 DEF Current
<1> HIDE DEF n, copy
<1>5. LegacyTyped'
  BY <1>1, <1>3 DEF LegacyTyped
<1>6. Phases'
  BY <1>1, <1>3 DEF Phases, Importing, Archiving, Stops
<1>7. Staging'
  BY <1>1, <1>3 DEF Staging, Importing, Archiving
<1>8. \A m \in LegacyFiles : (Saved(m) => Saved(m)') /\ (Kept(m) => Kept(m)')
  BY <1>1 DEF Saved, Kept
<1>9. item.kind = "migrated" /\ item.text = imported[n] => Saved(n)'
  BY <1>1, <1>4 DEF Saved, copy
<1>10. migration.dir # 0 /\ imported[n] # Absent =>
          Saved(n) \/ \E k \in DOMAIN plan : plan[k].kind = "migrated" /\ plan[k].text = imported[n]
  BY <1>1 DEF Archival, n
<1>11. migration'.dir # 0 /\ imported'[n'] # Absent =>
          Saved(n)' \/ \E k \in DOMAIN migration'.plan :
                          migration'.plan[k].kind = "migrated" /\ migration'.plan[k].text = imported'[n']
  <2>1. SUFFICES ASSUME migration.dir # 0, imported[n] # Absent, ~Saved(n)'
                 PROVE  \E k \in DOMAIN migration'.plan :
                          migration'.plan[k].kind = "migrated" /\ migration'.plan[k].text = imported[n]
    BY <1>1, <1>3, <1>4
  <2>2. PICK k \in DOMAIN plan : plan[k].kind = "migrated" /\ plan[k].text = imported[n]
    BY <1>1, <1>4, <1>10, <2>1 DEF Saved
  <2>3. plan[k] # item
    BY <1>9, <2>1, <2>2
  <2> QED  BY <1>2, <1>3, <2>2, <2>3
<1>12. migration'.pc = "takeout" => Archived(n', Head(migration'.plan).kind, Head(migration'.plan).text) \in archive'
  BY <1>1, <1>3, <1>4 DEF copy
<1>13. Archival'
  <2>1. \A t \in taken' : IsArchived(t[1], t[2])'
    BY <1>1 DEF Archival, IsArchived
  <2>2. completed' => \A m \in LegacyFiles : imported'[m] # Absent => Kept(m)'
    BY <1>1, <1>8 DEF Archival
  <2>3. migration'.pc \in Archiving /\ migration'.dir # 0 =>
          \A m \in LegacyFiles \ Left(migration'.todo) : imported'[m] # Absent => Saved(m)'
    BY <1>1, <1>3, <1>8 DEF Archival, Archiving
  <2> QED  BY <1>11, <1>12, <2>1, <2>2, <2>3, <1>4 DEF Archival, n
<1>14. Clearing'
  <2>1. ASSUME calm, migration'.pc = "copyout", place[n] # Absent
        PROVE  \E k \in DOMAIN migration'.plan : migration'.plan[k].out /\ migration'.plan[k].text = place[n]
    <3>1. PICK k \in DOMAIN plan : plan[k].out /\ plan[k].text = place[n]
      BY <1>1, <2>1 DEF Clearing, n
    <3>2. migration'.plan = Tail(plan) /\ ~item.out
      BY <1>3, <2>1
    <3>3. plan[k] # item
      BY <3>1, <3>2
    <3> QED  BY <1>2, <3>1, <3>2, <3>3
  <2> QED  BY <1>1, <1>3, <1>4, <2>1 DEF Clearing, Archiving, n
<1> QED  BY <1>5, <1>6, <1>7, <1>13, <1>14

LEMMA TakeKeeps == ASSUME LegacyInv, TakeOut  PROVE LegacyInv'
<1> USE DEF LegacyInv
<1> DEFINE n == Current
           plan == migration.plan
           item == Head(plan)
<1>1. /\ migration.pc = "takeout" /\ migration' = [migration EXCEPT !.pc = "copyout", !.plan = Tail(@)]
      /\ IF place[n] = item.text THEN place' = [place EXCEPT ![n] = Absent] /\ taken' = taken \cup {<<n, item.text>>}
         ELSE UNCHANGED <<place, taken>>
      /\ UNCHANGED <<dirs, archive, completed, imported, warned, calm>>
  BY DEF TakeOut, Current
<1>2. /\ migration \in Migration /\ plan # <<>> /\ item \in Items /\ Tail(plan) \in Seq(Items)
      /\ \A k \in DOMAIN plan : plan[k] = item \/ \E i \in DOMAIN Tail(plan) : Tail(plan)[i] = plan[k]
      /\ n \in LegacyFiles /\ n \in Left(migration.todo)
  BY <1>1, PlanTail, TodoTail DEF LegacyTyped, Migration, Phases, Current
<1>3. /\ migration' \in Migration /\ migration'.dir = migration.dir /\ migration'.from = migration.from
      /\ migration'.read = migration.read /\ migration'.todo = migration.todo
      /\ migration'.pc = "copyout" /\ migration'.plan = Tail(plan)
  BY <1>1, <1>2 DEF Migration, Archiving
<1>4. n' = n /\ place' \in Names
  BY <1>1, <1>3 DEF Current, LegacyTyped, Names, Held
<1>5. Archived(n, item.kind, item.text) \in archive
  BY <1>1 DEF Archival
<1> HIDE DEF n
<1>6. LegacyTyped'
  BY <1>1, <1>3, <1>4 DEF LegacyTyped
<1>7. Phases'
  BY <1>1, <1>3 DEF Phases, Importing, Archiving, Stops
<1>8. Staging'
  BY <1>1, <1>3 DEF Staging, Importing, Archiving
<1>9. \A m \in LegacyFiles : (Saved(m) => Saved(m)') /\ (Kept(m) => Kept(m)')
  BY <1>1 DEF Saved, Kept
<1>10. item.kind = "migrated" /\ item.text = imported[n] => Saved(n)'
  BY <1>1, <1>4, <1>5 DEF Saved
<1>11. ASSUME migration.dir # 0, imported[n] # Absent, ~Saved(n)'
       PROVE  \E k \in DOMAIN Tail(plan) : Tail(plan)[k].kind = "migrated" /\ Tail(plan)[k].text = imported[n]
  <2>1. PICK k \in DOMAIN plan : plan[k].kind = "migrated" /\ plan[k].text = imported[n]
    <3>1. ~Saved(n)
      BY <1>1, <1>4, <1>11 DEF Saved
    <3> QED  BY <1>1, <1>11, <3>1 DEF Archival, Archiving, n
  <2>2. plan[k] # item
    BY <1>10, <1>11, <2>1
  <2> QED  BY <1>2, <2>1, <2>2
<1>12. Archival'
  <2>1. \A t \in taken' : IsArchived(t[1], t[2])'
    <3>1. IsArchived(n, item.text)
      BY <1>5 DEF IsArchived, Archived
    <3>2. \A t \in taken : IsArchived(t[1], t[2])
      BY DEF Archival
    <3>3. \A t \in taken' : t \in taken \/ t = <<n, item.text>>
      BY <1>1
    <3>4. \A x, y : IsArchived(x, y)' <=> IsArchived(x, y)
      BY <1>1 DEF IsArchived
    <3> QED  BY <3>1, <3>2, <3>3, <3>4
  <2>2. completed' => \A m \in LegacyFiles : imported'[m] # Absent => Kept(m)'
    BY <1>1, <1>9 DEF Archival
  <2>3. migration'.pc \in Archiving /\ migration'.dir # 0 =>
          \A m \in LegacyFiles \ Left(migration'.todo) : imported'[m] # Absent => Saved(m)'
    BY <1>1, <1>3, <1>9 DEF Archival, Archiving
  <2> QED  BY <1>1, <1>3, <1>11, <2>1, <2>2, <2>3, <1>4 DEF Archival, n
<1>13. Clearing'
  <2>1. ASSUME calm, place'[n] # Absent
        PROVE  \E k \in DOMAIN Tail(plan) : Tail(plan)[k].out /\ Tail(plan)[k].text = place'[n]
    <3>1. place'[n] = place[n] /\ place[n] # item.text
      BY <1>1, <1>2, <2>1 DEF LegacyTyped, Names
    <3>2. PICK k \in DOMAIN plan : plan[k].out /\ plan[k].text = place[n]
      BY <1>1, <2>1, <3>1 DEF Clearing, n
    <3> QED  BY <1>2, <3>1, <3>2
  <2>2. \A m \in LegacyFiles : place[m] = Absent => place'[m] = Absent
    BY <1>1, <1>2 DEF LegacyTyped, Names
  <2> QED  BY <1>1, <1>3, <1>4, <2>1, <2>2 DEF Clearing, Archiving, n
<1> QED  BY <1>6, <1>7, <1>8, <1>12, <1>13

LEMMA FinishKeeps == ASSUME LegacyInv, FinishFile  PROVE LegacyInv'
<1> USE DEF LegacyInv
<1>1. /\ migration.pc = "copyout" /\ migration.plan = <<>> /\ migration.todo # <<>>
      /\ migration' = [migration EXCEPT !.pc = "archive", !.todo = Tail(@), !.writes = FALSE, !.end = {}]
      /\ UNCHANGED <<place, dirs, archive, completed, imported, taken, calm>>
  BY DEF FinishFile, Phases
<1>2. /\ migration \in Migration /\ Tail(migration.todo) \in Todos /\ Current \in LegacyFiles
      /\ Left(Tail(migration.todo)) = Left(migration.todo) \ {Current}
  BY <1>1, TodoTail DEF LegacyTyped, Migration, Current
<1>3. /\ migration' \in Migration /\ migration'.dir = migration.dir /\ migration'.from = migration.from
      /\ migration'.read = migration.read /\ migration'.todo = Tail(migration.todo)
      /\ migration'.pc = "archive"
  BY <1>1, <1>2 DEF Migration, Archiving
<1>4. LegacyTyped'
  BY <1>1, <1>3 DEF LegacyTyped
<1>5. Phases'
  BY <1>1, <1>3 DEF Phases, Importing, Archiving, Stops
<1>6. Staging'
  BY <1>1, <1>3 DEF Staging, Importing, Archiving
<1>7. DOMAIN migration.plan = {}
  BY <1>1
<1>8. Archival'
  BY <1>1, <1>2, <1>3, <1>7 DEF Archival, Archiving, Saved, Kept, IsArchived
<1>9. Clearing'
  BY <1>1, <1>2, <1>3, <1>7 DEF Clearing, Archiving
<1> QED  BY <1>4, <1>5, <1>6, <1>8, <1>9

\* A run ends: the directories may be anything that still holds what is not archived.
LEMMA EndKeeps ==
  ASSUME LegacyInv, completed, migration' = NoRun("done"), dirs' \in Seq(Dir), calm' \in BOOLEAN,
         \A n \in LegacyFiles : imported[n] # Absent => Kept(n)',
         calm' => \A n \in LegacyFiles : place[n] = Absent,
         UNCHANGED <<place, archive, completed, imported, taken>>
  PROVE  LegacyInv'
<1> USE DEF LegacyInv
<1>1. migration'.pc = "done" /\ migration' \in Migration
  BY NoRunTyped DEF NoRun
<1>2. LegacyTyped'
  BY <1>1 DEF LegacyTyped
<1>3. Phases' /\ Staging'
  BY <1>1 DEF Phases, Staging, Importing, Archiving, Stops
<1>4. Archival'
  BY <1>1 DEF Archival, Archiving, Saved, Kept, IsArchived
<1>5. Clearing'
  BY <1>1 DEF Clearing, Archiving
<1> QED  BY <1>2, <1>3, <1>4, <1>5

LEMMA FailureKeeps == ASSUME LegacyInv, ArchiveFails  PROVE LegacyInv'
<1> USE DEF LegacyInv
<1>1. /\ migration.pc \in {"copyout", "takeout"} /\ migration.todo # <<>> /\ calm' = FALSE /\ completed
      /\ UNCHANGED <<place, dirs, archive, completed, imported, taken>>
  BY DEF ArchiveFails, Fault, Phases, Archiving
<1>2. \A m \in LegacyFiles : Saved(m)' <=> Saved(m)
  BY <1>1 DEF Saved
<1>3. CASE migration.dir # 0
  <2>1. \A n \in LegacyFiles : imported[n] # Absent => Kept(n)'
    BY <1>1, <1>2 DEF Archival, Kept
  <2> QED  BY <1>1, <1>3, <2>1, EndKeeps DEF ArchiveFails, LegacyTyped
<1>4. CASE migration.dir = 0
  <2>1. migration' = [migration EXCEPT !.pc = "archive", !.todo = Tail(@), !.plan = <<>>, !.writes = FALSE, !.end = {}]
    BY <1>4 DEF ArchiveFails
  <2>2. migration \in Migration /\ Tail(migration.todo) \in Todos
    BY <1>1, TodoTail DEF LegacyTyped, Migration
  <2>3. /\ migration' \in Migration /\ migration'.dir = 0 /\ migration'.from = migration.from
        /\ migration'.read = migration.read /\ migration'.pc = "archive"
    <3>1. <<>> \in Seq(Items) /\ {} \in SUBSET Warnings /\ FALSE \in BOOLEAN
      OBVIOUS
    <3> QED  BY <1>4, <2>1, <2>2, <3>1 DEF Migration, Archiving
  <2>4. LegacyTyped'
    BY <1>1, <2>3 DEF LegacyTyped
  <2>5. Phases'
    BY <1>1, <2>3 DEF Phases, Importing, Archiving, Stops
  <2>6. Staging'
    BY <2>3 DEF Staging, Importing, Archiving
  <2>7. Archival'
    BY <1>1, <1>2, <2>3 DEF Archival, Archiving, Kept, IsArchived
  <2>8. Clearing'
    BY <1>1 DEF Clearing
  <2> QED  BY <2>4, <2>5, <2>6, <2>7, <2>8
<1> QED  BY <1>3, <1>4

LEMMA RemoveKeeps == ASSUME LegacyInv, RemoveStaged  PROVE LegacyInv'
<1> USE DEF LegacyInv
<1>1. /\ migration.pc = "archive" /\ migration.todo = <<>> /\ completed /\ migration' = NoRun("done")
      /\ UNCHANGED <<place, archive, completed, imported, taken>>
  BY DEF RemoveStaged, Phases, Archiving
<1>2. calm => \A n \in LegacyFiles : place[n] = Absent
  BY <1>1, LeftAll DEF Clearing, Archiving
<1>3. \A m \in LegacyFiles : Saved(m)' <=> Saved(m)
  BY <1>1 DEF Saved
<1>4. migration.dir # 0 => migration.dir \in DOMAIN dirs /\ \A n \in LegacyFiles : imported[n] # Absent => Kept(n)'
  BY <1>1, <1>3, LeftAll DEF Archival, Staging, Archiving, Kept
<1>5. CASE migration.dir = 0
  <2>1. UNCHANGED <<dirs, calm>>
    BY <1>5 DEF RemoveStaged
  <2>2. \A n \in LegacyFiles : imported[n] # Absent => Kept(n)'
    BY <1>1, <1>3, <2>1 DEF Archival, Kept
  <2> QED  BY <1>1, <1>2, <2>1, <2>2, EndKeeps DEF LegacyTyped
<1>6. CASE migration.dir # 0 /\ dirs' = RemoveAt(dirs, migration.dir) /\ UNCHANGED calm
  <2>1. dirs' \in Seq(Dir)
    BY <1>4, <1>6, Removed DEF LegacyTyped
  <2> QED  BY <1>1, <1>2, <1>4, <1>6, <2>1, EndKeeps DEF LegacyTyped
<1>7. ASSUME migration.dir # 0, calm' = FALSE, NEW d \in Partly(dirs[migration.dir]),
             dirs' = [dirs EXCEPT ![migration.dir] = d]
      PROVE  LegacyInv'
  <2>1. dirs[migration.dir] \in Dir
    BY <1>4, <1>7 DEF LegacyTyped
  <2>2. d \in Dir
    BY <2>1 DEF Partly, Dir, Names, Held
  <2>3. dirs' \in Seq(Dir)
    BY <1>4, <1>7, <2>2 DEF LegacyTyped
  <2> QED  BY <1>1, <1>4, <1>7, <2>3, EndKeeps
<1> QED  BY <1>5, <1>6, <1>7 DEF RemoveStaged, Fault

LEMMA LegacyStarts == ASSUME LegacyInit  PROVE LegacyInv
<1>1. migration = NoRun("off") /\ migration.pc = "off" /\ migration \in Migration /\ NoTexts \in Names
  BY NoRunTyped DEF LegacyInit, NoRun
<1>2. LegacyTyped
  <2>1. dirs \in Seq(Dir) /\ completed \in BOOLEAN /\ calm \in BOOLEAN
    <3>1. <<>> \in Seq(Dir)
      OBVIOUS
    <3> QED  BY <3>1 DEF LegacyInit
  <2>2. place \in Names /\ imported \in Names
    BY <1>1 DEF LegacyInit, Names, Held
  <2> QED  BY <1>1, <2>1, <2>2 DEF LegacyTyped
<1>3. Phases /\ Staging
  BY <1>1 DEF LegacyInit, Phases, Staging, Importing, Archiving
<1>4. Archival /\ Clearing
  BY <1>1 DEF LegacyInit, Archival, Clearing, Archiving
<1> QED  BY <1>2, <1>3, <1>4 DEF LegacyInv

LEMMA LegacyStep == ASSUME LegacyInv, [LegacyNext]_legacy  PROVE LegacyInv'
BY StartKeeps, ReadKeeps, StageInputsKeep, StageFileKeeps, ImportKeeps, DisturbanceKeeps, PlanKeeps, CopyKeeps,
   TakeKeeps, FinishKeeps, FailureKeeps, RemoveKeeps DEF LegacyNext

\* The import and the archival of the old files keep their order, through every crash, error
\* and edit: the inductive invariant behind LegacyHeld.
THEOREM LegacyOrdered == LegacySpec => []LegacyInv
<1>1. LegacyInit => LegacyInv
  BY LegacyStarts
<1>2. LegacyInv /\ [LegacyNext]_legacy => LegacyInv'
  BY LegacyStep
<1> QED  BY <1>1, <1>2, PTL DEF LegacySpec

\* However many starts crash, fail or are disturbed, no legacy file is lost, no two versions are
\* imported together, and an undisturbed start leaves none behind.
THEOREM LegacyNeverLost == LegacySpec => []LegacyHeld
<1>1. LegacyInv => LegacyHeld
  <2> SUFFICES ASSUME LegacyInv  PROVE LegacyHeld
    OBVIOUS
  <2>1. NothingLost
    BY DEF LegacyInv, Archival, NothingLost, Kept, Saved
  <2>2. ImportsWhatItFound
    <3>1. migration.pc \in {"off", "done"} => migration.read = NoTexts
      BY DEF LegacyInv, Phases, NoRun
    <3> QED  BY <3>1 DEF LegacyInv, Phases, ImportsWhatItFound, Importing, Archiving, LegacyTyped, Migration
  <2>3. StartSettles
    <3>1. migration.pc = "done" => Left(migration.todo) = {}
      BY LeftAll DEF LegacyInv, Phases, NoRun
    <3> QED  BY <3>1 DEF LegacyInv, Clearing, StartSettles, LegacyTyped, Names, NoTexts
  <2> QED  BY <2>1, <2>2, <2>3 DEF LegacyHeld
<1> QED  BY <1>1, LegacyOrdered, PTL
============================================================================
