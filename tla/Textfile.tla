----------------------------- MODULE Textfile -----------------------------
(***************************************************************************)
(* write_textfile (collectors/base.py): fill the sibling .tmp, then rename *)
(* it over the target, step by step as the file system sees it, with       *)
(* node_exporter scraping the target at any instant.                       *)
(*                                                                         *)
(* A body is Blocks blocks long, each holding the number of its render     *)
(* (the order in which the bodies are built); a render larger than one     *)
(* block reaches the file in several write calls.  Paths name inodes: an   *)
(* open of an existing path truncates its inode, a rename moves the name   *)
(* and leaves open descriptors where they are, and an inode is recycled    *)
(* only when no path and no descriptor refers to it.                       *)
(***************************************************************************)
EXTENDS Integers, Sequences, FiniteSets

CONSTANTS Writers,     \* processes that may run a collector on this node
          Readers,     \* concurrent scrapes by node_exporter
          Inodes,
          NoFile,      \* a path that names no file, a descriptor not open
          Blocks,      \* blocks of one body
          Overlap,     \* may two collector runs be in progress at once?
          MaxRenders   \* bound: bodies built over a behaviour

ASSUME TextfileAssumption ==
  /\ NoFile \notin Inodes
  /\ Blocks \in Nat \ {0}
  /\ Overlap \in BOOLEAN
  /\ MaxRenders \in Nat

VARIABLES tmp,      \* the inode the .tmp path names
          target,   \* the inode the .prom path names
          data,     \* what each inode holds, a sequence of blocks
          fd,       \* the inode each writer has open
          offset,   \* how many blocks each writer has written
          body,     \* the render each writer is writing
          renders,  \* bodies built so far
          rfd,      \* the inode each scrape has open
          buf,      \* what each scrape has read of it
          scraped   \* what each scrape delivered last

wvars == <<tmp, target, data, fd, offset, body, renders>>
rvars == <<rfd, buf, scraped>>
vars  == <<tmp, target, data, fd, offset, body, renders, rfd, buf, scraped>>

Hole == 0   \* a block inside a file that no write filled

InUse == {tmp, target} \cup {fd[w] : w \in Writers} \cup {rfd[r] : r \in Readers}

\* The file after writing block v at offset o: a gap before it reads as a hole.
WriteAt(file, o, v) ==
  [k \in 1 .. (IF o >= Len(file) THEN o + 1 ELSE Len(file)) |->
     IF k = o + 1 THEN v ELSE IF k <= Len(file) THEN file[k] ELSE Hole]

\* The file that holds render v and nothing else.
Full(v) == [k \in 1 .. Blocks |-> v]

Init == /\ tmp = NoFile /\ target = NoFile
        /\ data = [i \in Inodes |-> <<>>]
        /\ fd = [w \in Writers |-> NoFile]
        /\ offset = [w \in Writers |-> 0]
        /\ body = [w \in Writers |-> 0]
        /\ renders = 0
        /\ rfd = [r \in Readers |-> NoFile]
        /\ buf = [r \in Readers |-> <<>>]
        /\ scraped = [r \in Readers |-> <<>>]

\* Fault variants of the two steps below, for showing that the properties
\* notice them: opening .tmp in append mode; writing the target in place;
\* one block too many; renaming before the body is complete.
OpenTmpAppending(w) ==
  /\ fd[w] = NoFile
  /\ Overlap \/ \A v \in Writers : fd[v] = NoFile
  /\ renders < MaxRenders
  /\ renders' = renders + 1
  /\ \E i \in Inodes :
       /\ IF tmp = NoFile THEN i \notin InUse ELSE i = tmp
       /\ tmp' = i
       /\ data' = IF tmp = NoFile THEN [data EXCEPT ![i] = <<>>]
                  ELSE [data EXCEPT ![i] = Append(@, renders + 1)]
       /\ fd' = [fd EXCEPT ![w] = i]
  /\ offset' = [offset EXCEPT ![w] = 0]
  /\ body' = [body EXCEPT ![w] = renders + 1]
  /\ UNCHANGED <<target, rfd, buf, scraped>>

OpenInPlace(w) ==
  /\ fd[w] = NoFile
  /\ Overlap \/ \A v \in Writers : fd[v] = NoFile
  /\ renders < MaxRenders
  /\ renders' = renders + 1
  /\ \E i \in Inodes :
       /\ IF target = NoFile THEN i \notin InUse ELSE i = target
       /\ tmp' = i
       /\ data' = [data EXCEPT ![i] = <<>>]
       /\ fd' = [fd EXCEPT ![w] = i]
  /\ offset' = [offset EXCEPT ![w] = 0]
  /\ body' = [body EXCEPT ![w] = renders + 1]
  /\ UNCHANGED <<target, rfd, buf, scraped>>

FillTmpTooFar(w) ==
  /\ fd[w] # NoFile
  /\ offset[w] <= Blocks
  /\ data' = [data EXCEPT ![fd[w]] = WriteAt(@, offset[w], body[w])]
  /\ offset' = [offset EXCEPT ![w] = @ + 1]
  /\ UNCHANGED <<tmp, target, fd, body, renders, rfd, buf, scraped>>

ReplaceEarly(w) ==
  /\ fd[w] # NoFile
  /\ IF tmp = NoFile
     THEN UNCHANGED <<tmp, target>>
     ELSE target' = tmp /\ tmp' = NoFile
  /\ fd' = [fd EXCEPT ![w] = NoFile]
  /\ UNCHANGED <<data, offset, body, renders, rfd, buf, scraped>>

---------------------------------------------------------------------------
(* write_textfile: open .tmp for writing, fill it, rename it over target.  *)

\* tmp.write_text(body) opens .tmp, truncating the inode a crashed or failed
\* run left there; a systemd unit runs one process at a time.
OpenTmp(w) ==
  /\ fd[w] = NoFile
  /\ Overlap \/ \A v \in Writers : fd[v] = NoFile
  /\ renders < MaxRenders
  /\ renders' = renders + 1
  /\ \E i \in Inodes :
       /\ IF tmp = NoFile THEN i \notin InUse ELSE i = tmp
       /\ tmp' = i
       /\ data' = [data EXCEPT ![i] = <<>>]
       /\ fd' = [fd EXCEPT ![w] = i]
  /\ offset' = [offset EXCEPT ![w] = 0]
  /\ body' = [body EXCEPT ![w] = renders + 1]
  /\ UNCHANGED target
  /\ UNCHANGED rvars

FillTmp(w) ==
  /\ fd[w] # NoFile
  /\ offset[w] < Blocks
  /\ data' = [data EXCEPT ![fd[w]] = WriteAt(@, offset[w], body[w])]
  /\ offset' = [offset EXCEPT ![w] = @ + 1]
  /\ UNCHANGED <<tmp, target, fd, body, renders>>
  /\ UNCHANGED rvars

\* tmp.replace(path), after write_text closed the file.  With no .tmp left
\* (another run renamed it) the rename raises and the target stays.
Replace(w) ==
  /\ fd[w] # NoFile
  /\ offset[w] = Blocks
  /\ IF tmp = NoFile
     THEN UNCHANGED <<tmp, target>>
     ELSE /\ target' = tmp
          /\ tmp' = NoFile
  /\ fd' = [fd EXCEPT ![w] = NoFile]
  /\ UNCHANGED <<data, offset, body, renders>>
  /\ UNCHANGED rvars

\* The disk is full (write_text raises) or the process is killed: .tmp stays.
Abandon(w) ==
  /\ fd[w] # NoFile
  /\ fd' = [fd EXCEPT ![w] = NoFile]
  /\ UNCHANGED <<tmp, target, data, offset, body, renders>>
  /\ UNCHANGED rvars

---------------------------------------------------------------------------
(* node_exporter: open the target, read it to its end.                     *)

OpenScrape(r) ==
  /\ rfd[r] = NoFile
  /\ target # NoFile
  /\ rfd' = [rfd EXCEPT ![r] = target]
  /\ buf' = [buf EXCEPT ![r] = <<>>]
  /\ UNCHANGED scraped
  /\ UNCHANGED wvars

ReadBlock(r) ==
  /\ rfd[r] # NoFile
  /\ Len(buf[r]) < Len(data[rfd[r]])
  /\ buf' = [buf EXCEPT ![r] = Append(@, data[rfd[r]][Len(@) + 1])]
  /\ UNCHANGED <<rfd, scraped>>
  /\ UNCHANGED wvars

EndScrape(r) ==
  /\ rfd[r] # NoFile
  /\ Len(buf[r]) >= Len(data[rfd[r]])
  /\ scraped' = [scraped EXCEPT ![r] = buf[r]]
  /\ rfd' = [rfd EXCEPT ![r] = NoFile]
  /\ buf' = [buf EXCEPT ![r] = <<>>]
  /\ UNCHANGED wvars

Next == \/ \E w \in Writers : \/ OpenTmp(w) \/ FillTmp(w)
                              \/ Replace(w) \/ Abandon(w)
        \/ \E r \in Readers : OpenScrape(r) \/ ReadBlock(r) \/ EndScrape(r)

Spec == Init /\ [][Next]_vars

---------------------------------------------------------------------------
TypeOK ==
  /\ tmp \in Inodes \cup {NoFile}
  /\ target \in Inodes \cup {NoFile}
  /\ data \in [Inodes -> Seq(Nat)]
  /\ fd \in [Writers -> Inodes \cup {NoFile}]
  /\ offset \in [Writers -> 0 .. Blocks]
  /\ body \in [Writers -> Nat]
  /\ renders \in 0 .. MaxRenders
  /\ rfd \in [Readers -> Inodes \cup {NoFile}]
  /\ buf \in [Readers -> Seq(Nat)]
  /\ scraped \in [Readers -> Seq(Nat)]

\* A delivered scrape is one render in full: "a scrape sees either the
\* previous render or the new one in full, never a partial write"
\* (base.py:76-78), however the writer's and the scraper's steps interleave
\* and wherever earlier runs died.
WholeScrape ==
  \A r \in Readers : scraped[r] # <<>> => \E v \in 1 .. renders : scraped[r] = Full(v)

\* The steps of the strengthening that makes WholeScrape inductive when runs
\* do not overlap: only .tmp is ever open for writing, it is nobody else's
\* file, its writer's blocks are a prefix of one body, and every file a
\* reader can reach is whole.
Reachable == {target} \cup {rfd[r] : r \in Readers}
OneWriter == \A v, w \in Writers : fd[v] # NoFile /\ fd[w] # NoFile => v = w
TmpPrivate == tmp # NoFile => tmp \notin Reachable
WriterPrefix ==
  \A w \in Writers : fd[w] # NoFile =>
     /\ fd[w] = tmp
     /\ body[w] \in 1 .. renders
     /\ data[tmp] = [k \in 1 .. offset[w] |-> body[w]]
ReachableWhole ==
  \A i \in Reachable \ {NoFile} : \E v \in 1 .. renders : data[i] = Full(v)
BufferPrefix ==
  \A r \in Readers : rfd[r] # NoFile =>
     /\ Len(buf[r]) <= Blocks
     /\ \A k \in 1 .. Len(buf[r]) : buf[r][k] = data[rfd[r]][k]

IInv == /\ OneWriter /\ TmpPrivate /\ WriterPrefix
        /\ ReachableWhole /\ BufferPrefix /\ WholeScrape

\* What the refinement needs besides: the body being written is newer than
\* the render the target holds.
TargetOlder ==
  \A w \in Writers : \A v \in 1 .. renders :
    fd[w] # NoFile /\ target # NoFile /\ data[target] = Full(v) => v < body[w]

\* The whole inductive invariant of serial runs: what is open for writing is
\* private, what a scrape can reach is whole and older.
Inductive == IInv /\ TargetOlder

---------------------------------------------------------------------------
\* The file system implements the register: the published value is the
\* render the target holds, a scrape has picked the render of the inode it
\* opened, and what it delivers is that render.  A mixed file is no render.
RenderOf(file) ==
  IF file = <<>> THEN 0
  ELSE IF file = Full(file[1]) THEN file[1]
  ELSE -1

RenderAt(i) == IF i = NoFile THEN 0 ELSE RenderOf(data[i])

Register == INSTANCE AtomicFile WITH
  value    <- RenderAt(target),
  scraping <- [r \in Readers |-> RenderAt(rfd[r])],
  scraped  <- [r \in Readers |-> RenderOf(scraped[r])]

\* A render published later is a later render, a scrape delivers the render
\* it found when it opened the file.
ImplementsRegister == Register!Spec
=============================================================================
