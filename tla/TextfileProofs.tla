-------------------------- MODULE TextfileProofs --------------------------
(***************************************************************************)
(* For every number of readers, writers, inodes and blocks: when runs do   *)
(* not overlap, every scrape delivers one render in full.                  *)
(***************************************************************************)
EXTENDS Textfile, TLAPS

\* What a block write does to a file: at the end it appends one block, inside
\* the file it replaces one.
LEMMA WriteAtType ==
  ASSUME NEW file \in Seq(Nat), NEW o \in Nat, NEW v \in Nat
  PROVE  WriteAt(file, o, v) \in Seq(Nat)
<1> DEFINE n == IF o >= Len(file) THEN o + 1 ELSE Len(file)
<1>1. n \in Nat
  OBVIOUS
<1>2. \A k \in 1 .. n : (IF k = o + 1 THEN v ELSE IF k <= Len(file) THEN file[k] ELSE Hole) \in Nat
  BY DEF Hole
<1> QED
  BY <1>1, <1>2 DEF WriteAt

\* Writing a body block at the end of its prefix extends the prefix.
LEMMA WriteAtExtends ==
  ASSUME NEW o \in Nat, NEW v \in Nat
  PROVE  WriteAt([k \in 1 .. o |-> v], o, v) = [k \in 1 .. (o + 1) |-> v]
<1> DEFINE file == [k \in 1 .. o |-> v]
<1>1. file \in Seq(Nat) /\ Len(file) = o
  OBVIOUS
<1>2. \A k \in 1 .. (o + 1) :
         (IF k = o + 1 THEN v ELSE IF k <= Len(file) THEN file[k] ELSE Hole) = v
  BY <1>1
<1> QED
  BY <1>1, <1>2 DEF WriteAt

\* Every action keeps every variable in its type.
THEOREM TypeCorrect == Spec => []TypeOK
<1>1. Init => TypeOK
  BY TextfileAssumption DEF Init, TypeOK
<1>2. TypeOK /\ [Next]_vars => TypeOK'
  <2> SUFFICES ASSUME TypeOK, [Next]_vars PROVE TypeOK'
    OBVIOUS
  <2> USE TextfileAssumption DEF TypeOK
  <2>1. ASSUME NEW w \in Writers, OpenTmp(w) PROVE TypeOK'
    BY <2>1 DEF OpenTmp, rvars
  <2>2. ASSUME NEW w \in Writers, FillTmp(w) PROVE TypeOK'
    <3>1. fd[w] \in Inodes /\ offset[w] \in Nat /\ body[w] \in Nat /\ offset[w] + 1 \in 0 .. Blocks
      BY <2>2 DEF FillTmp
    <3>2. WriteAt(data[fd[w]], offset[w], body[w]) \in Seq(Nat)
      BY <3>1, WriteAtType
    <3>3. data' \in [Inodes -> Seq(Nat)]
      BY <2>2, <3>1, <3>2 DEF FillTmp
    <3> QED
      BY <2>2, <3>1, <3>3 DEF FillTmp, rvars
  <2>3. ASSUME NEW w \in Writers, Replace(w) PROVE TypeOK'
    BY <2>3 DEF Replace, rvars
  <2>4. ASSUME NEW w \in Writers, Abandon(w) PROVE TypeOK'
    BY <2>4 DEF Abandon, rvars
  <2>5. ASSUME NEW r \in Readers, OpenScrape(r) PROVE TypeOK'
    BY <2>5 DEF OpenScrape, wvars
  <2>6. ASSUME NEW r \in Readers, ReadBlock(r) PROVE TypeOK'
    <3>1. data[rfd[r]] \in Seq(Nat) /\ buf[r] \in Seq(Nat)
      BY <2>6 DEF ReadBlock
    <3>2. data[rfd[r]][Len(buf[r]) + 1] \in Nat
      BY <2>6, <3>1 DEF ReadBlock
    <3> QED
      BY <2>6, <3>1, <3>2 DEF ReadBlock, wvars
  <2>7. ASSUME NEW r \in Readers, EndScrape(r) PROVE TypeOK'
    BY <2>7 DEF EndScrape, wvars
  <2>8. CASE UNCHANGED vars
    BY <2>8 DEF vars
  <2> QED
    BY <2>1, <2>2, <2>3, <2>4, <2>5, <2>6, <2>7, <2>8 DEF Next
<1> QED
  BY <1>1, <1>2, PTL DEF Spec
\* When runs do not overlap, the strengthened invariant is inductive: the only
\* file open for writing is .tmp, no reader can reach it, and its writer has
\* filled it with a prefix of one body.
LEMMA IInvStep == TypeOK /\ ~Overlap /\ IInv /\ [Next]_vars => IInv'
<1> SUFFICES ASSUME TypeOK, ~Overlap, IInv, [Next]_vars PROVE IInv'
  OBVIOUS
<1> USE TextfileAssumption DEF TypeOK
<1>1. ASSUME NEW w \in Writers, OpenTmp(w) PROVE IInv'
  <2>1. PICK i \in Inodes : /\ IF tmp = NoFile THEN i \notin InUse ELSE i = tmp
                            /\ tmp' = i
                            /\ data' = [data EXCEPT ![i] = <<>>]
                            /\ fd' = [fd EXCEPT ![w] = i]
    BY <1>1 DEF OpenTmp
  <2>2. i \notin Reachable /\ Reachable' = Reachable /\ \A v \in Writers : fd[v] = NoFile
    BY <1>1, <2>1 DEF OpenTmp, rvars, Reachable, InUse, IInv, TmpPrivate
  <2>3. \A j \in Reachable \ {NoFile} : j \in Inodes /\ data'[j] = data[j]
    BY <2>1, <2>2 DEF Reachable
  <2>4. OneWriter'
    BY <2>1, <2>2 DEF OneWriter
  <2>5. TmpPrivate'
    BY <2>1, <2>2 DEF TmpPrivate
  <2>6. WriterPrefix'
    <3>1. data'[i] = <<>> /\ body'[w] = renders + 1 /\ renders' = renders + 1 /\ offset'[w] = 0
      BY <1>1, <2>1 DEF OpenTmp
    <3>2. <<>> = [k \in 1 .. 0 |-> renders + 1]
      OBVIOUS
    <3> QED
      BY <2>1, <2>2, <3>1, <3>2 DEF WriterPrefix
  <2>7. ReachableWhole'
    <3> SUFFICES ASSUME NEW j \in Reachable \ {NoFile}
                 PROVE  \E v \in 1 .. (renders + 1) : data'[j] = Full(v)
      BY <1>1, <2>2 DEF OpenTmp, ReachableWhole
    <3>1. PICK v \in 1 .. renders : data[j] = Full(v)
      BY DEF IInv, ReachableWhole
    <3>2. v \in 1 .. (renders + 1)
      OBVIOUS
    <3>3. data'[j] = data[j]
      BY <2>3
    <3> QED
      BY <3>1, <3>2, <3>3
  <2>8. BufferPrefix'
    BY <1>1, <2>3 DEF OpenTmp, rvars, BufferPrefix, IInv, Reachable
  <2>9. WholeScrape'
    BY <1>1 DEF OpenTmp, rvars, WholeScrape, IInv, Full
  <2> QED
    BY <2>4, <2>5, <2>6, <2>7, <2>8, <2>9 DEF IInv
<1>2. ASSUME NEW w \in Writers, FillTmp(w) PROVE IInv'
  <2>1. /\ fd[w] = tmp /\ tmp \in Inodes /\ tmp \notin Reachable /\ Reachable' = Reachable
        /\ body[w] \in Nat /\ offset[w] \in Nat
    <3>1. fd[w] = tmp /\ tmp # NoFile
      BY <1>2 DEF FillTmp, IInv, WriterPrefix
    <3>2. tmp \notin Reachable
      BY <3>1 DEF IInv, TmpPrivate
    <3>3. Reachable' = Reachable
      BY <1>2 DEF FillTmp, rvars, Reachable
    <3> QED
      BY <3>1, <3>2, <3>3
  <2>2. data'[tmp] = [k \in 1 .. (offset[w] + 1) |-> body[w]]
    <3>1. data[tmp] = [k \in 1 .. offset[w] |-> body[w]]
      BY <1>2 DEF FillTmp, IInv, WriterPrefix
    <3>2. data'[tmp] = WriteAt(data[tmp], offset[w], body[w])
      BY <1>2, <2>1 DEF FillTmp
    <3>3. WriteAt([k \in 1 .. offset[w] |-> body[w]], offset[w], body[w])
            = [k \in 1 .. (offset[w] + 1) |-> body[w]]
      BY <2>1, WriteAtExtends
    <3> QED
      BY <3>1, <3>2, <3>3
  <2>3. \A j \in Reachable \ {NoFile} : j \in Inodes /\ data'[j] = data[j]
    BY <1>2, <2>1 DEF FillTmp, Reachable
  <2>4. OneWriter' /\ TmpPrivate'
    BY <1>2, <2>1 DEF FillTmp, OneWriter, TmpPrivate, IInv
  <2>5. WriterPrefix'
    BY <1>2, <2>1, <2>2 DEF FillTmp, WriterPrefix, OneWriter, IInv
  <2>6. ReachableWhole'
    <3>1. ReachableWhole /\ renders' = renders /\ Reachable' = Reachable
      BY <1>2, <2>1 DEF FillTmp, IInv
    <3>2. \A v : Full(v)' = Full(v)
      BY DEF Full
    <3> QED
      BY <2>3, <3>1, <3>2 DEF ReachableWhole
  <2>7. BufferPrefix'
    <3>1. rfd' = rfd /\ buf' = buf
      BY <1>2 DEF FillTmp, rvars
    <3>2. \A r \in Readers : rfd[r] # NoFile => data'[rfd[r]] = data[rfd[r]]
      BY <2>3 DEF Reachable
    <3> QED
      BY <3>1, <3>2 DEF BufferPrefix, IInv
  <2>8. WholeScrape'
    BY <1>2 DEF FillTmp, rvars, WholeScrape, IInv, Full
  <2> QED
    BY <2>4, <2>5, <2>6, <2>7, <2>8 DEF IInv
<1>3. ASSUME NEW w \in Writers, Replace(w) PROVE IInv'
  <2>1. /\ fd[w] = tmp /\ tmp \in Inodes /\ target' = tmp /\ tmp' = NoFile
        /\ offset[w] = Blocks /\ data' = data /\ renders' = renders
        /\ fd' = [fd EXCEPT ![w] = NoFile]
        /\ rfd' = rfd /\ buf' = buf /\ scraped' = scraped
    BY <1>3 DEF Replace, rvars, IInv, WriterPrefix
  <2>2. \A v \in Writers : fd'[v] = NoFile
    BY <1>3, <2>1 DEF Replace, IInv, OneWriter
  <2>3. OneWriter' /\ TmpPrivate' /\ WriterPrefix'
    BY <2>1, <2>2 DEF OneWriter, TmpPrivate, WriterPrefix
  <2>4. ReachableWhole'
    <3>1. data[tmp] = Full(body[w]) /\ body[w] \in 1 .. renders
      BY <1>3, <2>1 DEF Replace, IInv, WriterPrefix, Full
    <3>2. Reachable' \subseteq Reachable \cup {tmp}
      BY <2>1 DEF Reachable
    <3>3. \A i \in Reachable \ {NoFile} : \E v \in 1 .. renders : data[i] = Full(v)
      BY DEF ReachableWhole, IInv
    <3> QED
      BY <2>1, <3>1, <3>2, <3>3 DEF ReachableWhole
  <2>5. BufferPrefix'
    BY <2>1 DEF BufferPrefix, IInv
  <2>6. WholeScrape'
    BY <2>1 DEF WholeScrape, IInv, Full
  <2> QED
    BY <2>3, <2>4, <2>5, <2>6 DEF IInv
<1>4. ASSUME NEW w \in Writers, Abandon(w) PROVE IInv'
  <2>1. /\ fd' = [fd EXCEPT ![w] = NoFile]
        /\ tmp' = tmp /\ target' = target /\ data' = data /\ offset' = offset /\ body' = body
        /\ renders' = renders /\ rfd' = rfd /\ buf' = buf /\ scraped' = scraped
    BY <1>4 DEF Abandon, rvars
  <2>2. OneWriter' /\ TmpPrivate' /\ WriterPrefix'
    BY <2>1 DEF IInv, OneWriter, TmpPrivate, WriterPrefix, Reachable
  <2>3. ReachableWhole' /\ BufferPrefix' /\ WholeScrape'
    BY <2>1 DEF IInv, ReachableWhole, BufferPrefix, WholeScrape, Reachable, Full
  <2> QED
    BY <2>2, <2>3 DEF IInv
<1>5. ASSUME NEW r \in Readers, OpenScrape(r) PROVE IInv'
  <2>1. /\ target # NoFile /\ rfd' = [rfd EXCEPT ![r] = target] /\ buf' = [buf EXCEPT ![r] = <<>>]
        /\ tmp' = tmp /\ target' = target /\ data' = data /\ fd' = fd /\ offset' = offset
        /\ body' = body /\ renders' = renders /\ scraped' = scraped
    BY <1>5 DEF OpenScrape, wvars
  <2>2. Reachable' \subseteq Reachable
    BY <2>1 DEF Reachable
  <2>3. OneWriter' /\ TmpPrivate' /\ WriterPrefix'
    BY <2>1, <2>2 DEF IInv, OneWriter, TmpPrivate, WriterPrefix
  <2>4. ReachableWhole' /\ WholeScrape'
    BY <2>1, <2>2 DEF IInv, ReachableWhole, WholeScrape
  <2>5. BufferPrefix'
    BY <2>1 DEF IInv, BufferPrefix
  <2> QED
    BY <2>3, <2>4, <2>5 DEF IInv
<1>6. ASSUME NEW r \in Readers, ReadBlock(r) PROVE IInv'
  <2>1. /\ rfd[r] # NoFile /\ Len(buf[r]) < Len(data[rfd[r]])
        /\ buf' = [buf EXCEPT ![r] = Append(@, data[rfd[r]][Len(@) + 1])]
        /\ tmp' = tmp /\ target' = target /\ data' = data /\ fd' = fd /\ offset' = offset
        /\ body' = body /\ renders' = renders /\ rfd' = rfd /\ scraped' = scraped
    BY <1>6 DEF ReadBlock, wvars
  <2>2. OneWriter' /\ TmpPrivate' /\ WriterPrefix' /\ ReachableWhole' /\ WholeScrape'
    <3>1. Reachable' = Reachable
      BY <2>1 DEF Reachable
    <3>2. OneWriter' /\ TmpPrivate' /\ WriterPrefix'
      BY <2>1, <3>1 DEF IInv, OneWriter, TmpPrivate, WriterPrefix
    <3>3. ReachableWhole' /\ WholeScrape'
      BY <2>1, <3>1 DEF IInv, ReachableWhole, WholeScrape
    <3> QED
      BY <3>2, <3>3
  <2>3. BufferPrefix'
    <3>1. PICK v \in 1 .. renders : data[rfd[r]] = Full(v)
      BY <2>1 DEF IInv, ReachableWhole, Reachable
    <3>2. Len(data[rfd[r]]) = Blocks
      BY <3>1 DEF Full
    <3> DEFINE n == Len(buf[r])
    <3>3. n \in Nat /\ n < Blocks /\ \A k \in 1 .. n : buf[r][k] = data[rfd[r]][k]
      BY <2>1, <3>2 DEF IInv, BufferPrefix
    <3>4. /\ Len(buf'[r]) = n + 1
          /\ \A k \in 1 .. (n + 1) : buf'[r][k] = data[rfd[r]][k]
      <4>1. buf'[r] = Append(buf[r], data[rfd[r]][n + 1]) /\ buf[r] \in Seq(Nat)
        BY <2>1
      <4> QED
        BY <4>1, <3>3
    <3>5. \A s \in Readers \ {r} : buf'[s] = buf[s]
      BY <2>1
    <3>6. data' = data /\ rfd' = rfd
      BY <2>1
    <3>7. n + 1 <= Blocks
      BY <3>3
    <3> HIDE DEF n
    <3> SUFFICES ASSUME NEW s \in Readers, rfd[s] # NoFile
                 PROVE  /\ Len(buf'[s]) <= Blocks
                        /\ \A k \in 1 .. Len(buf'[s]) : buf'[s][k] = data[rfd[s]][k]
      BY <3>6 DEF BufferPrefix
    <3>8. CASE s = r
      BY <3>8, <3>4, <3>7
    <3>9. CASE s # r
      BY <3>9, <3>5 DEF IInv, BufferPrefix
    <3> QED
      BY <3>8, <3>9
  <2> QED
    BY <2>2, <2>3 DEF IInv
<1>7. ASSUME NEW r \in Readers, EndScrape(r) PROVE IInv'
  <2>1. /\ rfd[r] # NoFile /\ Len(buf[r]) >= Len(data[rfd[r]])
        /\ scraped' = [scraped EXCEPT ![r] = buf[r]]
        /\ rfd' = [rfd EXCEPT ![r] = NoFile] /\ buf' = [buf EXCEPT ![r] = <<>>]
        /\ tmp' = tmp /\ target' = target /\ data' = data /\ fd' = fd /\ offset' = offset
        /\ body' = body /\ renders' = renders
    BY <1>7 DEF EndScrape, wvars
  <2>2. Reachable' \subseteq Reachable \cup {NoFile}
    BY <2>1 DEF Reachable
  <2>3. OneWriter' /\ TmpPrivate' /\ WriterPrefix' /\ ReachableWhole' /\ BufferPrefix'
    <3>1. OneWriter' /\ TmpPrivate' /\ WriterPrefix'
      BY <2>1, <2>2 DEF IInv, OneWriter, TmpPrivate, WriterPrefix
    <3>2. ReachableWhole'
      BY <2>1, <2>2 DEF IInv, ReachableWhole
    <3>3. BufferPrefix'
      BY <2>1 DEF IInv, BufferPrefix
    <3> QED
      BY <3>1, <3>2, <3>3
  <2>4. WholeScrape'
    <3>1. PICK v \in 1 .. renders : data[rfd[r]] = Full(v)
      BY <2>1 DEF IInv, ReachableWhole, Reachable
    <3>2. Len(buf[r]) = Blocks
      BY <2>1, <3>1 DEF Full, IInv, BufferPrefix
    <3>3. \A k \in 1 .. Blocks : buf[r][k] = v
      BY <2>1, <3>1, <3>2 DEF IInv, BufferPrefix, Full
    <3>4. buf[r] = Full(v)
      BY <3>2, <3>3 DEF Full
    <3> QED
      BY <2>1, <3>4 DEF IInv, WholeScrape
  <2> QED
    BY <2>3, <2>4 DEF IInv
<1>8. CASE UNCHANGED vars
  BY <1>8 DEF vars, IInv, OneWriter, TmpPrivate, WriterPrefix, ReachableWhole, BufferPrefix,
              WholeScrape, Reachable, Full
<1> QED
  BY <1>1, <1>2, <1>3, <1>4, <1>5, <1>6, <1>7, <1>8 DEF Next

LEMMA IInvInit == Init => IInv
BY TextfileAssumption DEF Init, IInv, OneWriter, TmpPrivate, WriterPrefix, ReachableWhole,
   BufferPrefix, WholeScrape, Reachable

\* Without overlapping runs a scrape never sees a partial write, wherever the
\* scraper's steps fall and wherever earlier runs died (base.py:76-78).
THEOREM SerialRunsNeverTorn == ASSUME ~Overlap PROVE Spec => []WholeScrape
<1>1. TypeOK /\ IInv /\ [Next]_vars => IInv'
  BY IInvStep
<1>2. IInv => WholeScrape
  BY DEF IInv
<1> QED
  BY <1>1, <1>2, IInvInit, TypeCorrect, PTL DEF Spec
\* A file holding one body reads as that body's render.
LEMMA RenderOfFull == ASSUME NEW v \in Nat PROVE RenderOf(Full(v)) = v
<1>1. Full(v) # <<>> /\ Full(v)[1] = v
  BY TextfileAssumption DEF Full
<1> QED
  BY <1>1 DEF RenderOf

LEMMA RenderOfEmpty == RenderOf(<<>>) = 0
BY DEF RenderOf

\* Two bodies are the same only if their renders are.
LEMMA FullInjective ==
  ASSUME NEW v \in Nat, NEW u \in Nat, Full(v) = Full(u) PROVE v = u
BY RenderOfFull

LEMMA TargetOlderStep ==
  TypeOK /\ ~Overlap /\ IInv /\ TargetOlder /\ [Next]_vars => TargetOlder'
<1> SUFFICES ASSUME TypeOK, ~Overlap, IInv, TargetOlder, [Next]_vars,
                    NEW x \in Writers, NEW v \in 1 .. renders',
                    fd'[x] # NoFile, target' # NoFile, data'[target'] = Full(v)
             PROVE  v < body'[x]
  BY DEF TargetOlder
<1> USE TextfileAssumption DEF TypeOK
<1>1. ASSUME NEW w \in Writers, OpenTmp(w) PROVE v < body'[x]
  <2>1. PICK i \in Inodes : /\ IF tmp = NoFile THEN i \notin InUse ELSE i = tmp
                            /\ data' = [data EXCEPT ![i] = <<>>]
                            /\ fd' = [fd EXCEPT ![w] = i]
    BY <1>1 DEF OpenTmp
  <2>2. x = w /\ target' = target /\ body'[w] = renders + 1
    BY <1>1, <2>1 DEF OpenTmp
  <2>3. i # target /\ target \in Inodes
    BY <2>1, <2>2 DEF InUse, IInv, TmpPrivate, Reachable
  <2>4. data[target] = Full(v)
    BY <2>1, <2>2, <2>3
  <2>5. PICK u \in 1 .. renders : data[target] = Full(u)
    BY <2>3 DEF IInv, ReachableWhole, Reachable
  <2>6. v \in Nat /\ u \in Nat /\ Full(v) = Full(u)
    BY <1>1, <2>4, <2>5 DEF OpenTmp
  <2>7. v = u
    BY <2>6, FullInjective
  <2> QED
    BY <2>2, <2>5, <2>7
<1>2. ASSUME NEW w \in Writers, FillTmp(w) PROVE v < body'[x]
  <2>1. fd[w] = tmp /\ tmp # NoFile /\ tmp \notin Reachable
    BY <1>2 DEF FillTmp, IInv, WriterPrefix, TmpPrivate
  <2>2. /\ data'[target] = data[target] /\ target' = target /\ fd' = fd /\ body' = body
        /\ renders' = renders
    BY <1>2, <2>1 DEF FillTmp, Reachable
  <2> QED
    BY <2>2 DEF TargetOlder
<1>3. ASSUME NEW w \in Writers, Replace(w) PROVE v < body'[x]
  BY <1>3 DEF Replace, IInv, OneWriter
<1>4. ASSUME NEW w \in Writers, Abandon(w) PROVE v < body'[x]
  BY <1>4 DEF Abandon, IInv, OneWriter
<1>5. ASSUME NEW r \in Readers, OpenScrape(r) \/ ReadBlock(r) \/ EndScrape(r) PROVE v < body'[x]
  BY <1>5 DEF OpenScrape, ReadBlock, EndScrape, wvars, TargetOlder
<1>6. CASE UNCHANGED vars
  BY <1>6 DEF vars, TargetOlder
<1> QED
  BY <1>1, <1>2, <1>3, <1>4, <1>5, <1>6 DEF Next

\* Every step of the file system is a step of the register or a stutter: the
\* rename publishes, opening the target begins a scrape, its end delivers.
LEMMA RegisterStep ==
  TypeOK /\ ~Overlap /\ IInv /\ IInv' /\ TargetOlder /\ [Next]_vars => [Register!Next]_(Register!vars)
<1> SUFFICES ASSUME TypeOK, ~Overlap, IInv, IInv', TargetOlder, [Next]_vars
             PROVE  [Register!Next]_(Register!vars)
  OBVIOUS
<1> USE TextfileAssumption DEF TypeOK
<1> DEFINE Stutter == /\ RenderAt(target)' = RenderAt(target)
                      /\ \A r \in Readers : RenderAt(rfd[r])' = RenderAt(rfd[r])
                      /\ scraped' = scraped
<1>0. ASSUME Stutter PROVE [Register!Next]_(Register!vars)
  BY <1>0 DEF Register!vars
<1>1. ASSUME NEW w \in Writers, OpenTmp(w) PROVE Stutter
  <2>1. PICK i \in Inodes : /\ IF tmp = NoFile THEN i \notin InUse ELSE i = tmp
                            /\ data' = [data EXCEPT ![i] = <<>>]
    BY <1>1 DEF OpenTmp
  <2>2. i \notin Reachable
    BY <2>1 DEF InUse, Reachable, IInv, TmpPrivate
  <2> QED
    BY <1>1, <2>1, <2>2 DEF OpenTmp, rvars, RenderAt, Reachable
<1>2. ASSUME NEW w \in Writers, FillTmp(w) PROVE Stutter
  <2>1. fd[w] = tmp /\ tmp # NoFile /\ tmp \notin Reachable
    BY <1>2 DEF FillTmp, IInv, WriterPrefix, TmpPrivate
  <2> QED
    BY <1>2, <2>1 DEF FillTmp, rvars, RenderAt, Reachable
<1>3. ASSUME NEW w \in Writers, Replace(w) PROVE Register!Publish
  <2>1. /\ fd[w] = tmp /\ tmp \in Inodes /\ target' = tmp /\ data' = data
        /\ rfd' = rfd /\ scraped' = scraped
    BY <1>3 DEF Replace, rvars, IInv, WriterPrefix
  <2>2. data[tmp] = Full(body[w]) /\ body[w] \in Nat /\ body[w] > 0
    BY <1>3, <2>1 DEF Replace, IInv, WriterPrefix, Full
  <2>3. RenderAt(target)' = body[w]
    BY <2>1, <2>2, RenderOfFull DEF RenderAt
  <2>4. RenderAt(target) < body[w]
    <3>1. CASE target = NoFile
      BY <3>1, <2>2 DEF RenderAt
    <3>2. CASE target # NoFile
      <4>1. PICK v \in 1 .. renders : data[target] = Full(v)
        BY <3>2 DEF IInv, ReachableWhole, Reachable
      <4>2. v < body[w]
        BY <1>3, <3>2, <4>1 DEF Replace, TargetOlder
      <4> QED
        BY <3>2, <4>1, <4>2, RenderOfFull DEF RenderAt
    <3> QED
      BY <3>1, <3>2
  <2>5. \A r \in Readers : RenderAt(rfd[r])' = RenderAt(rfd[r])
    BY <2>1 DEF RenderAt
  <2> QED
    BY <2>1, <2>2, <2>3, <2>4, <2>5 DEF Register!Publish
<1>4. ASSUME NEW w \in Writers, Abandon(w) PROVE Stutter
  BY <1>4 DEF Abandon, rvars, RenderAt
<1>5. ASSUME NEW r \in Readers, OpenScrape(r) PROVE Register!Begin(r)
  <2>1. /\ target \in Inodes /\ rfd[r] = NoFile /\ rfd' = [rfd EXCEPT ![r] = target]
        /\ data' = data /\ target' = target /\ scraped' = scraped
    BY <1>5 DEF OpenScrape, wvars
  <2>2. PICK v \in 1 .. renders : data[target] = Full(v)
    BY <2>1 DEF IInv, ReachableWhole, Reachable
  <2>3. RenderAt(target) = v /\ RenderAt(target)' = v /\ v # 0 /\ RenderAt(rfd[r]) = 0
    BY <2>1, <2>2, RenderOfFull DEF RenderAt
  <2>4. RenderAt(rfd[r])' = v /\ \A s \in Readers \ {r} : RenderAt(rfd[s])' = RenderAt(rfd[s])
    BY <2>1, <2>2, RenderOfFull DEF RenderAt
  <2> QED
    BY <2>1, <2>3, <2>4 DEF Register!Begin, Register!NoRender
<1>6. ASSUME NEW r \in Readers, ReadBlock(r) PROVE Stutter
  BY <1>6 DEF ReadBlock, wvars, RenderAt
<1>7. ASSUME NEW r \in Readers, EndScrape(r) PROVE Register!Deliver(r)
  <2>1. /\ rfd[r] \in Inodes /\ rfd[r] # NoFile /\ rfd' = [rfd EXCEPT ![r] = NoFile]
        /\ data' = data /\ target' = target
        /\ Len(buf[r]) >= Len(data[rfd[r]])
        /\ scraped' = [scraped EXCEPT ![r] = buf[r]]
    BY <1>7 DEF EndScrape, wvars
  <2>2. PICK v \in 1 .. renders : data[rfd[r]] = Full(v)
    BY <2>1 DEF IInv, ReachableWhole, Reachable
  <2>3. buf[r] = Full(v)
    <3>1. Len(data[rfd[r]]) = Blocks
      BY <2>2 DEF Full
    <3>2. /\ Len(buf[r]) <= Blocks
          /\ \A k \in 1 .. Len(buf[r]) : buf[r][k] = data[rfd[r]][k]
      BY <2>1 DEF IInv, BufferPrefix
    <3>3. Len(buf[r]) = Blocks
      BY <2>1, <3>1, <3>2
    <3>4. \A k \in 1 .. Blocks : buf[r][k] = v
      BY <2>2, <3>2, <3>3 DEF Full
    <3> QED
      BY <3>3, <3>4 DEF Full
  <2>4. RenderAt(rfd[r]) = v /\ v # 0 /\ RenderOf(buf[r]) = v
    BY <2>1, <2>2, <2>3, RenderOfFull DEF RenderAt
  <2>5. RenderAt(rfd[r])' = 0 /\ \A s \in Readers \ {r} : RenderAt(rfd[s])' = RenderAt(rfd[s])
    BY <2>1 DEF RenderAt
  <2>6. RenderOf(scraped[r])' = v /\ \A s \in Readers \ {r} : RenderOf(scraped[s])' = RenderOf(scraped[s])
    BY <2>1, <2>4
  <2>7. RenderAt(target)' = RenderAt(target)
    BY <2>1 DEF RenderAt
  <2> QED
    BY <2>4, <2>5, <2>6, <2>7 DEF Register!Deliver, Register!NoRender
<1>8. CASE UNCHANGED vars
  BY <1>8 DEF vars, Register!vars, RenderAt
<1> QED
  BY <1>0, <1>1, <1>2, <1>3, <1>4, <1>5, <1>6, <1>7, <1>8 DEF Next, Register!Next

\* Without overlapping runs the whole argument holds throughout: one process
\* has .tmp open, its inode is neither the target's nor open in a scrape, and
\* what a scrape can reach is whole and older than what is being written.
THEOREM SerialRunsKeepTmpPrivate == ASSUME ~Overlap PROVE Spec => []Inductive
<1>1. Init => TargetOlder
  BY DEF Init, TargetOlder
<1>2. TypeOK /\ IInv /\ [Next]_vars => IInv'
  BY IInvStep
<1>3. TypeOK /\ IInv /\ TargetOlder /\ [Next]_vars => TargetOlder'
  BY TargetOlderStep
<1> QED
  BY <1>1, <1>2, <1>3, IInvInit, TypeCorrect, PTL DEF Spec, Inductive

\* Without overlapping runs the file implements the register: each scrape
\* delivers the render that was published when it opened the file, and the
\* published render only ever gets newer.
THEOREM SerialRunsImplementRegister == ASSUME ~Overlap PROVE Spec => ImplementsRegister
<1>1. Init => Register!Init
  BY RenderOfEmpty DEF Init, Register!Init, Register!NoRender, RenderAt
<1>2. Init => TargetOlder
  BY DEF Init, TargetOlder
<1>3. TypeOK /\ IInv /\ [Next]_vars => IInv'
  BY IInvStep
<1>4. TypeOK /\ IInv /\ TargetOlder /\ [Next]_vars => TargetOlder'
  BY TargetOlderStep
<1>5. TypeOK /\ IInv /\ IInv' /\ TargetOlder /\ [Next]_vars => [Register!Next]_(Register!vars)
  BY RegisterStep
<1> QED
  BY <1>1, <1>2, <1>3, <1>4, <1>5, IInvInit, TypeCorrect, PTL
     DEF Spec, ImplementsRegister, Register!Spec
=============================================================================
