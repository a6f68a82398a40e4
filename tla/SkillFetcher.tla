---------------------------- MODULE SkillFetcher ----------------------------
(***************************************************************************)
(* The fetcher of Agent Skills with the skill package: one goroutine walks *)
(* a tree for directories that hold a SKILL.md, then turns each into an    *)
(* item, SKILL.md alone or with an archive of all files below the          *)
(* directory, and reports on errCh every directory it cannot turn into     *)
(* one.                                                                    *)
(*                                                                         *)
(* What lies below a skill directory is read four times (isSkillBundle,    *)
(* ReadFile of SKILL.md, collectArchiveFiles, encodeSkillArchive), the     *)
(* first and the third time by a walk that lists each directory as it      *)
(* comes to it, and nothing locks it: an editor may write and remove files *)
(* between any two steps.  Directories and symbolic links do not change.   *)
(***************************************************************************)
EXTENDS Selection, SequencesExt, FiniteSets

CONSTANTS
    Trees,      \* the trees considered, each [dirs, unreadable, disk, order]:
                \* paths of directories in the order of WalkDir, those that
                \* cannot be listed, the entry of each name in each, and all
                \* places, [dir, name], in the order of their paths (that of
                \* sort.Slice by relPath); no dirs: no directory
    Names,      \* the names of files and directories, in a listing's order
    SkillFile,  \* the one of SKILL.md
    Size,       \* the contents a file can have, and their sizes
    Valid,      \* those that parse as SKILL.md
    MaxFiles, MaxBytes,     \* maxArchiveFiles, maxArchiveUncompressedLen
    ItemBuf, ErrBuf,        \* capacities of outputCh and errCh
    MaxEdits,   \* bound: how often the editor acts
    MayCancel

Contents == DOMAIN Size

\* "dir" is a directory of the tree, "in" a link that leads, whatever links are
\* between, to the entry `is` of the same directory, "out" one to a file outside
\* of the tree.
Entries == [kind : {"none", "dir", "out"}, is : {""}]
           \cup [kind : {"file"}, is : Contents]
           \cup [kind : {"in"}, is : ToSet(Names)]
Absent == [kind |-> "none", is |-> ""]

\* WalkDir comes to a directory once, before those below it.
InWalkOrder(paths) ==
    \A i, j \in DOMAIN paths : i < j => ~IsPrefix(paths[j], paths[i])

\* The entries that are directories are those of the paths, at each level.
InShape(dirs, entries) ==
    /\ \A d \in dirs, n \in ToSet(Names) :
        entries[d][n].kind = "dir" => Append(d, n) \in dirs
    /\ \A p, d \in dirs : IsPrefix(p, d) /\ p # d =>
        \E n \in ToSet(Names) :
            entries[p][n].kind = "dir" /\ IsPrefix(Append(p, n), d)

ASSUME SkillAssumption ==
    /\ Names \in Seq(STRING) /\ SkillFile \in ToSet(Names)
    /\ "" \notin Contents
    /\ Size \in [Contents -> Nat] /\ Valid \subseteq Contents
    /\ \A t \in Trees :
        /\ t.dirs \in Seq(Seq(STRING)) /\ InWalkOrder(t.dirs)
        /\ t.unreadable \subseteq ToSet(t.dirs)
        /\ t.disk \in [ToSet(t.dirs) -> [ToSet(Names) -> Entries]]
        /\ InShape(ToSet(t.dirs), t.disk)
        /\ t.order \in Seq([dir : ToSet(t.dirs), name : ToSet(Names)])
        /\ ToSet(t.order) = [dir : ToSet(t.dirs), name : ToSet(Names)]
        /\ IsInjective(t.order)
        /\ \A d \in ToSet(t.dirs), n \in ToSet(Names) :
            t.disk[d][n].kind = "in" => t.disk[d][t.disk[d][n].is].kind # "in"
    /\ {MaxFiles, MaxBytes, MaxEdits} \subseteq Nat
    /\ ItemBuf \in Nat \ {0} /\ ErrBuf \in Nat \ {0} /\ MayCancel \in BOOLEAN

VARIABLES
    tree, disk,     \* the tree, and its files now
    edits,
    pc,         \* "open", "stat", "within", "list", "check", "markdown",
                \* "collect", "size", "encode", "send", "report", "closed"
    toVisit,    \* directories the walk still has to visit
    found,      \* skillDirs
    next,       \* the skill being read, an index of found; 0: discovering
    listed,     \* the places a walk of the skill has still to visit
    item,       \* the item being built: [skill, markdown, bundle, archive]
    files,      \* the files of collectArchiveFiles: the size of each place
    quiet,      \* no edit of this skill since it was begun (not in the code)
    sent, errs,         \* all that was sent on outputCh and errCh,
    sentRead, errsRead, \* and how much of it was received
    reading, cancelled

reader == <<sentRead, errsRead, reading>>
skillVars == <<listed, item, files, quiet>>
walkVars == <<toVisit, found>>
outside == <<tree, disk, edits, cancelled, reader>>
vars == <<tree, disk, edits, pc, walkVars, next, skillVars, sent, errs, reader,
          cancelled>>

\* The entry that os.Stat and os.ReadFile see, links followed.
Follow(d, n) ==
    LET e == disk[d][n]
    IN  IF e.kind = "in" THEN disk[d][e.is] ELSE e

At(p) == disk[p.dir][p.name]
Path(p) == Append(p.dir, p.name)
TopFile(d) == [dir |-> d, name |-> SkillFile]
Dir == found[next]
Total(sizes) == FoldLeft(LAMBDA a, b : a + b, 0, sizes)

\* In the order of sort.Slice.
Sorted(places) == Select(tree.order, places)

\* maxArchiveFiles and maxArchiveUncompressedLen.
TooLarge(sizes) ==
    LET s == Sorted(DOMAIN sizes)
    IN  Len(s) > MaxFiles \/ Total([i \in DOMAIN s |-> sizes[s[i]]]) > MaxBytes

NoItem == [skill |-> 0, markdown |-> "", bundle |-> FALSE, archive |-> <<>>]

----------------------------------------------------------------------------
Init ==
    /\ tree \in Trees /\ disk = tree.disk /\ edits = 0
    /\ pc = "open" /\ toVisit = tree.dirs /\ found = <<>> /\ next = 0
    /\ listed = <<>> /\ item = NoItem /\ files = <<>> /\ quiet = TRUE
    /\ sent = <<>> /\ errs = <<>> /\ sentRead = 0 /\ errsRead = 0
    /\ reading = TRUE /\ cancelled = FALSE

Goto(l) == pc' = l

\* Mutant: nothing is said when no skill could be parsed.
AfterLastSilent(emitted) == "closed"

AfterLast(emitted) == IF emitted = 0 THEN "report" ELSE "closed"

\* The loop over skillDirs: skill k is next; when none is left, it is an error
\* that nothing was emitted.
Turn(k, emitted) ==
    /\ next' = k
    /\ Goto(IF k \in DOMAIN found THEN "list" ELSE AfterLast(emitted))
    /\ listed' = <<>> /\ files' = <<>> /\ quiet' = TRUE
    /\ item' = [NoItem EXCEPT !.skill = IF k \in DOMAIN found THEN k ELSE 0]

Open ==
    /\ pc = "open"
    /\ Goto(IF tree.dirs = <<>> \/ cancelled THEN "report" ELSE "stat")
    /\ UNCHANGED <<walkVars, next, skillVars, sent, errs, outside>>

\* An error ends the whole walk, and what it had found is not returned.
WalkFails == Goto("report") /\ found' = <<>> /\ UNCHANGED toVisit

\* What WalkDir does with a directory that is no skill: it lists it.
Descend ==
    IF Head(toVisit) \in tree.unreadable THEN WalkFails
    ELSE Goto("stat") /\ toVisit' = Tail(toVisit) /\ UNCHANGED found

\* One call of the WalkDirFunc, up to the Stat of SKILL.md ...
StatSkillFile ==
    /\ pc = "stat" /\ toVisit # <<>>
    /\ IF cancelled THEN WalkFails
       ELSE IF Follow(Head(toVisit), SkillFile).kind \in {"none", "dir"}
            THEN Descend
            ELSE Goto("within") /\ UNCHANGED walkVars
    /\ UNCHANGED <<next, skillVars, sent, errs, outside>>

\* Mutants: the walk goes on below a skill; it ends at the first one.
BesideSkillBelow(d) == Tail(toVisit)
BesideSkillNone(d) == <<>>

\* SkipDir: nothing below d is visited.
BesideSkill(d) == Select(toVisit, {x \in ToSet(toVisit) : ~IsPrefix(d, x)})

\* ... and isPathWithinRoot, which resolves the path again: it fails when the
\* file has gone meanwhile.
CheckWithin ==
    /\ pc = "within"
    /\ LET d == Head(toVisit)
           k == Follow(d, SkillFile).kind
       IN  \/ k = "none" /\ WalkFails
           \/ k = "out" /\ Descend
           \/ /\ k = "file"
              /\ found' = Append(found, d)
              /\ toVisit' = BesideSkill(d)
              /\ Goto("stat")
    /\ UNCHANGED <<next, skillVars, sent, errs, outside>>

EndWalk ==
    /\ pc = "stat" /\ toVisit = <<>>
    /\ IF found = <<>> THEN Goto("report") /\ UNCHANGED <<next, skillVars>>
                       ELSE Turn(1, 0)
    /\ UNCHANGED <<walkVars, sent, errs, outside>>

----------------------------------------------------------------------------
\* Mutant: only the skill's own directory is read.
WalkedFlat == {"file"}

\* A walk of a skill passes over what is neither a regular file nor a directory.
Walked == {"file", "dir"}

Listing(d) ==
    LET kept == Select(Names, {n \in ToSet(Names) : disk[d][n].kind \in Walked})
    IN  [i \in DOMAIN kept |-> [dir |-> d, name |-> kept[i]]]

\* WalkDir lists a directory before it goes on; an error ends the walk.
WalkInto(d, rest, l) ==
    IF d \in tree.unreadable
    THEN Goto("report") /\ UNCHANGED listed
    ELSE Goto(l) /\ listed' = Listing(d) \o rest

\* What the walk comes to next, found again by isPathWithinRoot.
Visiting(kind) == listed # <<>> /\ At(Head(listed)).kind = kind

\* isSkillBundle: a walk until a regular file is not the skill's SKILL.md.
ListFiles ==
    /\ pc = "list"
    /\ WalkInto(Dir, <<>>, "check")
    /\ UNCHANGED <<walkVars, next, item, files, quiet, sent, errs, outside>>

\* Mutant: the walk stops at SKILL.md.
AfterSkillFileNone == <<>>

AfterSkillFile == Tail(listed)

CheckFile ==
    /\ pc = "check"
    /\ \/ /\ listed = <<>>
          /\ Goto("markdown") /\ UNCHANGED <<listed, item>>
       \/ /\ Visiting("dir")
          /\ WalkInto(Path(Head(listed)), Tail(listed), "check")
          /\ UNCHANGED item
       \/ /\ Visiting("none")
          /\ Goto("report") /\ UNCHANGED <<listed, item>>
       \/ /\ Visiting("file") /\ Head(listed) = TopFile(Dir)
          /\ listed' = AfterSkillFile /\ UNCHANGED <<pc, item>>
       \/ /\ Visiting("file") /\ Head(listed) # TopFile(Dir)
          /\ listed' = <<>> /\ item' = [item EXCEPT !.bundle = TRUE]
          /\ Goto("markdown")
    /\ UNCHANGED <<walkVars, next, files, quiet, sent, errs, outside>>

\* ParseSkillDirectory
ReadMarkdown ==
    /\ pc = "markdown"
    /\ LET raw == Follow(Dir, SkillFile)
       IN  IF raw.is \notin Valid
           THEN Goto("report") /\ UNCHANGED item
           ELSE /\ item' = [item EXCEPT !.markdown = raw.is]
                /\ Goto(IF item.bundle THEN "collect" ELSE "send")
    /\ UNCHANGED <<walkVars, next, listed, files, quiet, sent, errs, outside>>

\* collectArchiveFiles: a second walk, ...
CollectFiles ==
    /\ pc = "collect"
    /\ WalkInto(Dir, <<>>, "size")
    /\ UNCHANGED <<walkVars, next, item, files, quiet, sent, errs, outside>>

\* ... whose files are sized one by one and held against the limits.
SizeFile ==
    /\ pc = "size"
    /\ \/ /\ listed = <<>>
          /\ Goto(IF DOMAIN files = {} THEN "report" ELSE "encode")
          /\ UNCHANGED <<listed, files>>
       \/ /\ Visiting("dir")
          /\ WalkInto(Path(Head(listed)), Tail(listed), "size")
          /\ UNCHANGED files
       \/ /\ Visiting("none")
          /\ Goto("report") /\ UNCHANGED <<listed, files>>
       \/ /\ Visiting("file")
          /\ files' = [p \in DOMAIN files \cup {Head(listed)} |->
                        IF p = Head(listed) THEN Size[At(p).is] ELSE files[p]]
          /\ listed' = Tail(listed)
          /\ Goto(IF TooLarge(files') THEN "report" ELSE "size")
    /\ UNCHANGED <<walkVars, next, item, quiet, sent, errs, outside>>

\* Mutant: what is read is written, whatever size was recorded.
SizeMismatchIgnored(p, content) == FALSE

SizeMismatch(p, content) == Size[content] # files[p]

\* encodeSkillArchive: the header has the recorded size, the file is read now.
EncodeFile ==
    /\ pc = "encode"
    /\ LET ordered == Sorted(DOMAIN files)
           p == ordered[Len(item.archive) + 1]
       IN  IF Len(item.archive) = Len(ordered)
           THEN Goto("send") /\ UNCHANGED item
           ELSE IF At(p) = Absent \/ SizeMismatch(p, At(p).is)
                THEN Goto("report") /\ UNCHANGED item
                ELSE /\ item' = [item EXCEPT !.archive =
                                    Append(@, [place |-> p, is |-> At(p).is])]
                     /\ UNCHANGED pc
    /\ UNCHANGED <<walkVars, next, listed, files, quiet, sent, errs, outside>>

\* Mutant: the channel is not bounded.
RoomForItemAlways == TRUE

RoomForItem == Len(sent) - sentRead < ItemBuf

SendItem ==
    /\ pc = "send" /\ RoomForItem
    /\ sent' = Append(sent, item)
    /\ Turn(next + 1, Len(sent) + 1)
    /\ UNCHANGED <<walkVars, errs, outside>>

SendCancelled ==
    /\ pc = "send" /\ cancelled
    /\ Goto("closed")
    /\ UNCHANGED <<walkVars, next, skillVars, sent, errs, outside>>

\* Mutant: the first skill that fails ends the import.
AfterReportStop == Goto("closed") /\ UNCHANGED <<next, skillVars>>

\* sendError: waits for room; once the context is done, it drops the error when
\* there is none.  A skill's error is followed by the next skill, any other by
\* the end.
AfterReport ==
    IF next \in DOMAIN found THEN Turn(next + 1, Len(sent))
    ELSE Goto("closed") /\ UNCHANGED <<next, skillVars>>

Report ==
    /\ pc = "report" /\ Len(errs) - errsRead < ErrBuf
    /\ errs' = Append(errs, item.skill)
    /\ AfterReport
    /\ UNCHANGED <<walkVars, sent, outside>>

\* Mutant: sendError waits for room whatever becomes of the context.
DropReportNever == FALSE

DropReport ==
    /\ pc = "report" /\ cancelled /\ Len(errs) - errsRead = ErrBuf
    /\ AfterReport
    /\ UNCHANGED <<walkVars, sent, errs, outside>>

----------------------------------------------------------------------------
\* The environment: the editor, the readers of the two channels, the caller.
Edit ==
    /\ edits < MaxEdits /\ pc # "closed"
    /\ \E d \in DOMAIN disk, n \in ToSet(Names) :
        \E e \in [kind : {"file"}, is : Contents] \cup {Absent} :
            /\ disk[d][n].kind \in {"none", "file"} /\ e # disk[d][n]
            /\ disk' = [disk EXCEPT ![d][n] = e]
            /\ quiet' = (quiet /\ ~(next \in DOMAIN found /\ IsPrefix(Dir, d)))
    /\ edits' = edits + 1
    /\ UNCHANGED <<tree, pc, walkVars, next, listed, item, files, sent, errs,
                   reader, cancelled>>

ReadItem ==
    /\ reading /\ sentRead < Len(sent)
    /\ sentRead' = sentRead + 1
    /\ UNCHANGED <<tree, disk, edits, pc, walkVars, next, skillVars, sent, errs,
                   errsRead, reading, cancelled>>

ReadErr ==
    /\ reading /\ errsRead < Len(errs)
    /\ errsRead' = errsRead + 1
    /\ UNCHANGED <<tree, disk, edits, pc, walkVars, next, skillVars, sent, errs,
                   sentRead, reading, cancelled>>

StopReading ==
    /\ reading /\ MayCancel
    /\ reading' = FALSE
    /\ UNCHANGED <<tree, disk, edits, pc, walkVars, next, skillVars, sent, errs,
                   sentRead, errsRead, cancelled>>

Cancel ==
    /\ MayCancel /\ ~cancelled /\ pc # "closed"
    /\ cancelled' = TRUE
    /\ UNCHANGED <<tree, disk, edits, pc, walkVars, next, skillVars, sent, errs,
                   reader>>

Stopped ==
    /\ \/ pc = "closed"
       \/ ~reading /\ ~cancelled
    /\ UNCHANGED vars

Discovering == Open \/ StatSkillFile \/ CheckWithin \/ EndWalk
Building ==
    \/ ListFiles \/ CheckFile \/ ReadMarkdown
    \/ CollectFiles \/ SizeFile \/ EncodeFile
Sending == SendItem \/ SendCancelled \/ Report \/ DropReport
Fetching == Discovering \/ Building \/ Sending

Next == \/ Fetching \/ Edit \/ ReadItem \/ ReadErr \/ StopReading \/ Cancel
        \/ Stopped

Spec == Init /\ [][Next]_vars

\* The goroutine is scheduled; a reader that reads keeps reading.
FairSpec == Spec /\ WF_vars(Fetching) /\ WF_vars(ReadItem) /\ WF_vars(ReadErr)

----------------------------------------------------------------------------
IsSkillDir(d) ==
    LET e == disk[d][SkillFile]
    IN  e.kind = "file" \/ (e.kind = "in" /\ disk[d][e.is].kind = "file")

\* The regular files below d, at any depth.
FilesOf(d) ==
    {p \in ToSet(tree.order) : IsPrefix(d, p.dir) /\ At(p).kind = "file"}

\* What a skill directory below which nobody edits is to yield: SKILL.md, alone
\* when it is the only regular file below it, else with every one of them, or
\* an error: there is a directory that cannot be listed, SKILL.md is no skill,
\* or there is too much for an archive.
Fails(d) ==
    \/ \E x \in tree.unreadable : IsPrefix(d, x)
    \/ Follow(d, SkillFile).is \notin Valid
    \/ /\ FilesOf(d) \ {TopFile(d)} # {}
       /\ TooLarge([p \in FilesOf(d) |-> Size[At(p).is]])

Yields(d, i) ==
    LET bundle == FilesOf(d) \ {TopFile(d)} # {}
        archived == IF bundle THEN Sorted(FilesOf(d)) ELSE <<>>
    IN  /\ i.markdown = Follow(d, SkillFile).is
        /\ i.bundle = bundle
        /\ i.archive = [k \in DOMAIN archived |->
                            [place |-> archived[k], is |-> At(archived[k]).is]]

TypeOK ==
    /\ tree \in Trees
    /\ disk \in [ToSet(tree.dirs) -> [ToSet(Names) -> Entries]]
    /\ edits \in 0..MaxEdits
    /\ next \in 0..(Len(found) + 1) /\ item.skill \in 0..Len(found)
    /\ ToSet(found) \cup ToSet(toVisit) \subseteq ToSet(tree.dirs)
    /\ ToSet(listed) \cup DOMAIN files \subseteq ToSet(tree.order)
    /\ quiet \in BOOLEAN
    /\ sentRead \in 0..Len(sent) /\ errsRead \in 0..Len(errs)
    /\ Len(sent) - sentRead <= ItemBuf /\ Len(errs) - errsRead <= ErrBuf
    /\ {reading, cancelled} \subseteq BOOLEAN

\* "returns every directory that contains SKILL.md directly ... its
\* subdirectories are not searched": of a tree nobody edits, the walk finds the
\* topmost skill directories, whatever lies below them.  No skill is part of
\* another one, even when SKILL.md files come and go while the walk is on: no
\* file is imported twice.
DiscoverExact ==
    /\ \A i, j \in DOMAIN found : i # j => ~IsPrefix(found[i], found[j])
    /\ edits = 0 /\ next # 0 =>
        ToSet(found) =
            {d \in ToSet(tree.dirs) :
                /\ IsSkillDir(d)
                /\ \A p \in ToSet(tree.dirs) :
                    IsPrefix(p, d) /\ p # d => ~IsSkillDir(p)}

\* The four readings of a skill agree on what it yields while nobody edits below
\* its directory, however deep its files lie and whatever skills are among them.
QuietIsExact ==
    /\ pc = "send" /\ quiet => ~Fails(Dir) /\ Yields(Dir, item)
    /\ pc = "report" /\ next \in DOMAIN found /\ quiet => Fails(Dir)

\* No archive exceeds the limits on its files and on their bytes: not even when
\* files grow after their sizes were taken.
BundleWithinLimits ==
    \A i \in DOMAIN sent :
        LET a == sent[i].archive
        IN  /\ Len(a) <= MaxFiles
            /\ Total([k \in DOMAIN a |-> Size[a[k].is]]) <= MaxBytes
            /\ sent[i].bundle <=> a # <<>>

\* "Per-skill parse failures are reported on errCh without aborting the
\* remaining skills": without cancellation each skill found ends as one item or
\* one error; and a fetch that ends with no item has said so in an error of its
\* own.
AllSkillsReported ==
    pc = "closed" /\ ~cancelled =>
        /\ sent = <<>> => errs # <<>> /\ Last(errs) = 0
        /\ \A k \in DOMAIN found :
            Cardinality({i \in DOMAIN sent : sent[i].skill = k})
            + Cardinality({i \in DOMAIN errs : errs[i] = k}) = 1

\* With readers that read on, or once cancelled whoever reads, the goroutine
\* ends.
FetchEnds == []<>(pc = "closed" \/ (~reading /\ ~cancelled))
=============================================================================
