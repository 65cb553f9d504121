---------------------------- MODULE IngestProofs ----------------------------
(***************************************************************************)
(* The variables of Ingest have their types, IInv is an inductive          *)
(* invariant of it, part by part, and what follows from both, for every    *)
(* number of receivers, files, lines, days and kills, and every batch size *)
(* and flush count.                                                        *)
(***************************************************************************)
EXTENDS IngestInv, FiniteSetTheorems, TLAPS

-----------------------------------------------------------------------------
(* Bags *)

\* Adding the bag of a set to a bag gives a bag that holds one copy more of every
\* member of the set and of nothing else.
LEMMA BagPlusSet ==
    ASSUME NEW B, IsABag(B), NEW S
    PROVE  /\ IsABag(B (+) SetToBag(S))
           /\ BagToSet(B (+) SetToBag(S)) = BagToSet(B) \cup S
           /\ \A e \in BagToSet(B) \cup S :
                 (B (+) SetToBag(S))[e] =
                     (IF BagIn(e, B) THEN B[e] ELSE 0) + (IF e \in S THEN 1 ELSE 0)
BY DEF IsABag, SetToBag, BagToSet, BagIn, (+)

LEMMA EmptyBagIsABag == IsABag(EmptyBag) /\ BagToSet(EmptyBag) = {}
BY DEF IsABag, EmptyBag, SetToBag, BagToSet

-----------------------------------------------------------------------------
(* Types *)

\* Every file stays a sequence of lines when a writer appends to it.
LEMMA AppendToFilesType ==
    ASSUME StreamTypeOK, NEW r \in Receivers, NEW more \in Seq(Lines),
           AppendToFiles(r, more)
    PROVE  content' \in [Hours -> Seq(Lines)] /\ mtime' \in [Hours -> Hours]
<1> DEFINE rolled(h) == IF h = openHour[r] /\ h # hour THEN buf[r] ELSE << >>
           added(h)  == IF h = hour THEN rolled(h) \o more ELSE rolled(h)
<1>1. \A h \in Hours : rolled(h) \in Seq(Lines)
  BY DEF StreamTypeOK
<1>2. \A h \in Hours : added(h) \in Seq(Lines)
  BY <1>1
<1>3. content' = [h \in Hours |-> content[h] \o added(h)]
  BY DEF AppendToFiles
<1>4. \A h \in Hours : content[h] \o added(h) \in Seq(Lines)
  BY <1>2 DEF StreamTypeOK
<1>5. mtime' \in [Hours -> Hours]
  BY DEF AppendToFiles, StreamTypeOK
<1>6. content' \in [Hours -> Seq(Lines)]
  <2> HIDE DEF added
  <2> QED BY <1>3, <1>4
<1> QED
  BY <1>5, <1>6

LEMMA StreamTypeInit == StreamInit => StreamTypeOK
BY StreamAssumption DEF StreamAssumption, StreamInit, StreamTypeOK, Hours, NoHour, Places

LEMMA StreamTypeStep == StreamTypeOK /\ StreamNext => StreamTypeOK'
<1> SUFFICES ASSUME StreamTypeOK, StreamNext PROVE StreamTypeOK'
  OBVIOUS
<1> USE StreamAssumption DEF StreamAssumption
<1>1. CASE ClockTick
  <2>1. hour' \in Hours
    BY <1>1 DEF ClockTick, StreamTypeOK, Hours
  <2>2. UNCHANGED <<content, loc, mtime, up, openHour, buf, writes, received, outages>>
    BY <1>1 DEF ClockTick, fileVars, receiverVars
  <2> QED
    BY <2>1, <2>2 DEF StreamTypeOK
<1>2. ASSUME NEW r \in Receivers, StopReceiver(r) PROVE StreamTypeOK'
  <2>1. content' \in [Hours -> Seq(Lines)]
    <3> DEFINE new(h) == IF h = openHour[r] THEN content[h] \o buf[r] ELSE content[h]
    <3>1. content' = [h \in Hours |-> new(h)]
      BY <1>2 DEF StopReceiver
    <3>2. \A h \in Hours : content[h] \in Seq(Lines) /\ buf[r] \in Seq(Lines)
      BY DEF StreamTypeOK
    <3>3. \A h \in Hours : new(h) \in Seq(Lines)
      BY <3>2
    <3> HIDE DEF new
    <3> QED
      BY <3>1, <3>3
  <2>2. mtime' \in [Hours -> Hours]
    BY <1>2 DEF StopReceiver, StreamTypeOK
  <2> QED
    BY <1>2, <2>1, <2>2 DEF StopReceiver, ForgetWriter, StreamTypeOK
<1>3. ASSUME NEW r \in Receivers, KillReceiver(r) PROVE StreamTypeOK'
  BY <1>3 DEF KillReceiver, ForgetWriter, StreamTypeOK
<1>4. ASSUME NEW r \in Receivers, StartReceiver(r) PROVE StreamTypeOK'
  BY <1>4 DEF StartReceiver, StreamTypeOK, fileVars
<1>5. ASSUME NEW r \in Receivers, NEW line \in Sent, ReceiveAndFlush(r, line)
      PROVE  StreamTypeOK'
  <2>1. Append(Held(r), line) \in Seq(Lines)
    BY DEF StreamTypeOK, Held
  <2>2. content' \in [Hours -> Seq(Lines)] /\ mtime' \in [Hours -> Hours]
    BY <1>5, <2>1, AppendToFilesType DEF ReceiveAndFlush
  <2>3. openHour' \in [Receivers -> Hours \cup {NoHour}] /\ loc' \in [Hours -> Places]
    BY <1>5 DEF ReceiveAndFlush, OpenCurrentHour, StreamTypeOK, Places
  <2>4. buf' \in [Receivers -> Seq(Lines)]
    BY <1>5 DEF ReceiveAndFlush, StreamTypeOK
  <2>5. received' \in 0 .. MaxLines /\ writes' \in [Receivers -> Nat]
    BY <1>5 DEF ReceiveAndFlush, StreamTypeOK
  <2> QED
    BY <1>5, <2>2, <2>3, <2>4, <2>5 DEF ReceiveAndFlush, StreamTypeOK
<1>6. ASSUME NEW r \in Receivers, NEW line \in Sent, NEW spill \in BOOLEAN,
             ReceiveAndHold(r, line, spill)
      PROVE  StreamTypeOK'
  <2>1. /\ (IF spill THEN Held(r) ELSE << >>) \in Seq(Lines)
        /\ (IF spill THEN <<line>> ELSE Append(Held(r), line)) \in Seq(Lines)
    BY DEF StreamTypeOK, Held
  <2>2. content' \in [Hours -> Seq(Lines)] /\ mtime' \in [Hours -> Hours]
    BY <1>6, <2>1, AppendToFilesType DEF ReceiveAndHold
  <2>3. openHour' \in [Receivers -> Hours \cup {NoHour}] /\ loc' \in [Hours -> Places]
    BY <1>6 DEF ReceiveAndHold, OpenCurrentHour, StreamTypeOK, Places
  <2>4. buf' \in [Receivers -> Seq(Lines)]
    BY <1>6, <2>1 DEF ReceiveAndHold, StreamTypeOK
  <2>5. writes' \in [Receivers -> Nat]
    BY <1>6 DEF ReceiveAndHold, Counted, StreamTypeOK
  <2> QED
    BY <1>6, <2>2, <2>3, <2>4, <2>5 DEF ReceiveAndHold, StreamTypeOK
<1> QED
  BY <1>1, <1>2, <1>3, <1>4, <1>5, <1>6 DEF StreamNext

LEMMA ProcessorTypeInit == ProcessorInit => ProcessorTypeOK
<1> SUFFICES ASSUME ProcessorInit PROVE ProcessorTypeOK
  OBVIOUS
<1>1. 0 \in Hours
  BY StreamAssumption DEF StreamAssumption, Hours
<1>2. 0 \in 0 .. MaxKills /\ 0 \in 0 .. MaxStops
  BY ProcessorAssumption DEF ProcessorAssumption
<1> QED
  BY <1>1, <1>2, EmptyBagIsABag DEF ProcessorInit, ProcessorTypeOK, Controls

\* Inserting the records of a set keeps the tables a bag of records.
LEMMA InsertType ==
    ASSUME ProcessorTypeOK, NEW S \in SUBSET batch, rows' = rows (+) SetToBag(S)
    PROVE  IsABag(rows') /\ BagToSet(rows') \subseteq Hours \X (Nat \ {0})
BY BagPlusSet DEF ProcessorTypeOK

LEMMA ProcessorStepType == StreamTypeOK /\ ProcessorTypeOK /\ ProcessorStep => ProcessorTypeOK'
<1> SUFFICES ASSUME StreamTypeOK, ProcessorTypeOK, ProcessorStep PROVE ProcessorTypeOK'
  OBVIOUS
<1> USE DEF ProcessorTypeOK, Controls, durableVars, faultVars
<1>1. CASE StartProcessor
  BY <1>1 DEF StartProcessor
<1>2. CASE StartTick
  BY <1>2 DEF StartTick, Listed
<1>3. CASE KeepFile
  BY <1>3 DEF KeepFile
<1>4. CASE ArchiveFile
  BY <1>4 DEF ArchiveFile
<1>5. CASE MoveFile
  BY <1>5 DEF MoveFile
<1>6. CASE FlushAtTickEnd
  BY <1>6 DEF FlushAtTickEnd
<1>7. CASE SkipFlushAtTickEnd
  BY <1>7 DEF SkipFlushAtTickEnd
<1>8. CASE FinalFlush
  BY <1>8 DEF FinalFlush
<1>9. CASE SaveOffset
  BY <1>9 DEF SaveOffset, SavedOffset
<1>10. CASE ForgetOffset
  BY <1>10 DEF ForgetOffset, ForgottenOffset
<1>11. CASE FinishFlush
  BY <1>11 DEF FinishFlush, BatchCleared
<1>12. CASE Exit
  <2>1. 0 \in Hours
    BY StreamAssumption DEF StreamAssumption, Hours
  <2> QED
    BY <1>12, <2>1 DEF Exit, ProcessEnds
<1>13. ASSUME NEW h \in Hours, ReadFile(h) PROVE ProcessorTypeOK'
  <2>1. offset[h] \in Nat /\ Len(content[h]) \in Nat
    BY DEF StreamTypeOK
  <2> QED
    BY <1>13, <2>1 DEF ReadFile, OpenFile
<1>14. ASSUME NEW j \in pos + 1 .. eof, ProcessLine(j) PROVE ProcessorTypeOK'
  <2>1. batch' \subseteq Hours \X (Nat \ {0}) /\ pos' \in Nat
    BY <1>14 DEF ProcessLine
  <2>2. pc' \in Controls /\ after' \in Controls
    BY <1>14 DEF ProcessLine
  <2> QED
    BY <1>14, <2>1, <2>2 DEF ProcessLine
<1>15. ASSUME NEW d \in Days, InsertDay(d) PROVE ProcessorTypeOK'
  <2> DEFINE S == {p \in batch : DayOf(p) = d}
  <2>1. rows' = rows (+) SetToBag(S) /\ S \in SUBSET batch
    BY <1>15 DEF InsertDay
  <2>2. IsABag(rows') /\ BagToSet(rows') \subseteq Hours \X (Nat \ {0})
    BY <2>1, InsertType
  <2> QED
    BY <1>15, <2>2 DEF InsertDay
<1> QED
  BY <1>1, <1>2, <1>3, <1>4, <1>5, <1>6, <1>7, <1>8, <1>9, <1>10, <1>11, <1>12, <1>13, <1>14, <1>15
  DEF ProcessorStep

LEMMA SignalType == StreamTypeOK /\ ProcessorTypeOK /\ Signal => ProcessorTypeOK'
<1> SUFFICES ASSUME StreamTypeOK, ProcessorTypeOK, Signal PROVE ProcessorTypeOK'
  OBVIOUS
<1> USE DEF ProcessorTypeOK, Controls, durableVars
<1>0. 0 \in Hours
  BY StreamAssumption DEF StreamAssumption, Hours
<1>1. CASE Sigterm
  <2>1. stops' \in 0 .. MaxStops
    BY <1>1, ProcessorAssumption DEF Sigterm, ProcessorAssumption
  <2> QED
    BY <1>1, <2>1 DEF Sigterm
<1>2. ASSUME NEW h \in Hours, ReadInterrupted(h) PROVE ProcessorTypeOK'
  <2>1. offset[h] \in Nat /\ Len(content[h]) \in Nat
    BY DEF StreamTypeOK
  <2>2. stops' \in 0 .. MaxStops
    BY <1>2, ProcessorAssumption DEF ReadInterrupted, ProcessorAssumption
  <2>3. PICK upTo \in offset[h] .. Len(content[h]) : OpenFile(h, upTo)
    BY <1>2 DEF ReadInterrupted
  <2>4. pos' \in Nat /\ eof' \in Nat /\ cur' \in Hours /\ todo' \subseteq Hours
    BY <2>1, <2>3 DEF OpenFile
  <2> QED
    BY <1>2, <2>2, <2>3, <2>4 DEF ReadInterrupted, OpenFile
<1>3. CASE Kill
  <2>1. kills' \in 0 .. MaxKills
    BY <1>3, ProcessorAssumption DEF Kill, ProcessorAssumption
  <2> QED
    BY <1>0, <1>3, <2>1 DEF Kill, ProcessEnds
<1>4. ASSUME NEW d \in Days, NEW some \in SUBSET batch, KillDuringInsert(d, some)
      PROVE  ProcessorTypeOK'
  <2>1. IsABag(rows') /\ BagToSet(rows') \subseteq Hours \X (Nat \ {0})
    BY <1>4, InsertType DEF KillDuringInsert
  <2>2. kills' \in 0 .. MaxKills
    BY <1>4, ProcessorAssumption DEF KillDuringInsert, ProcessorAssumption
  <2> QED
    BY <1>0, <1>4, <2>1, <2>2 DEF KillDuringInsert, ProcessEnds
<1> QED
  BY <1>1, <1>2, <1>3, <1>4 DEF Signal

\* Steps of the processor, and signals, leave the stream's types alone: MoveFile is
\* the only one that touches a stream variable.
LEMMA ProcessorKeepsStreamType == StreamTypeOK /\ (ProcessorStep \/ Signal) => StreamTypeOK'
<1> SUFFICES ASSUME StreamTypeOK, ProcessorStep \/ Signal PROVE StreamTypeOK'
  OBVIOUS
<1>1. CASE UNCHANGED streamVars
  BY <1>1 DEF StreamTypeOK, streamVars, fileVars, receiverVars
<1>2. CASE MoveFile
  <2>1. loc' \in [Hours -> Places] /\ mtime' \in [Hours -> Hours]
    BY <1>2 DEF MoveFile, StreamTypeOK, Places
  <2> QED
    BY <1>2, <2>1 DEF MoveFile, StreamTypeOK, receiverVars
<1>3. UNCHANGED streamVars \/ MoveFile
  BY DEF ProcessorStep, Signal, StartProcessor, StartTick, ReadFile, OpenFile, ProcessLine,
         SaveOffset, KeepFile, ArchiveFile, ForgetOffset, InsertDay, FinishFlush,
         FlushAtTickEnd, SkipFlushAtTickEnd, FinalFlush, Exit, Sigterm, ReadInterrupted,
         Kill, KillDuringInsert
<1> QED
  BY <1>1, <1>2, <1>3

\* The variables of the pipeline have their types, whatever the interleaving of
\* receivers, processor, signals and clock.
THEOREM TypeCorrect == Spec => []TypeOK
<1>1. Init => TypeOK
  BY StreamTypeInit, ProcessorTypeInit DEF Init, TypeOK
<1>2. TypeOK /\ [Next]_vars => TypeOK'
  <2> SUFFICES ASSUME TypeOK, [Next]_vars PROVE TypeOK'
    OBVIOUS
  <2>1. CASE StreamNext /\ UNCHANGED processorVars
    <3>1. StreamTypeOK'
      BY <2>1, StreamTypeStep DEF TypeOK
    <3>2. ProcessorTypeOK'
      BY <2>1 DEF TypeOK, ProcessorTypeOK, processorVars, durableVars, faultVars, loopVars
    <3> QED
      BY <3>1, <3>2 DEF TypeOK
  <2>2. CASE ProcessorStep
    BY <2>2, ProcessorStepType, ProcessorKeepsStreamType DEF TypeOK
  <2>3. CASE Signal
    BY <2>3, SignalType, ProcessorKeepsStreamType DEF TypeOK
  <2>4. CASE UNCHANGED vars
    BY <2>4 DEF TypeOK, StreamTypeOK, ProcessorTypeOK, vars, streamVars, fileVars,
                receiverVars, processorVars, durableVars, faultVars, loopVars
  <2> QED
    BY <2>1, <2>2, <2>3, <2>4 DEF Next
<1> QED
  BY <1>1, <1>2, PTL DEF Spec

-----------------------------------------------------------------------------
(* What a step of the stream can do to the files *)

\* A receiver, or the clock, only adds lines to files and creates the file of the
\* current hour.
FilesGrow ==
    /\ \A h \in Hours : /\ Len(content[h]) <= Len(content'[h])
                        /\ \A i \in 1 .. Len(content[h]) : content'[h][i] = content[h][i]
    /\ \A h \in Hours : loc'[h] = loc[h] \/ (h = hour /\ loc'[h] = "stream")
    /\ hour <= hour'

LEMMA ConcatKeepsPrefix ==
    ASSUME NEW S, NEW s \in Seq(S), NEW t \in Seq(S)
    PROVE  Len(s) <= Len(s \o t) /\ \A i \in 1 .. Len(s) : (s \o t)[i] = s[i]
OBVIOUS

LEMMA AppendToFilesGrows ==
    ASSUME StreamTypeOK, NEW r \in Receivers, NEW more \in Seq(Lines),
           AppendToFiles(r, more)
    PROVE  \A h \in Hours :
              /\ Len(content[h]) <= Len(content'[h])
              /\ \A i \in 1 .. Len(content[h]) : content'[h][i] = content[h][i]
<1> DEFINE rolled(h) == IF h = openHour[r] /\ h # hour THEN buf[r] ELSE << >>
           added(h)  == IF h = hour THEN rolled(h) \o more ELSE rolled(h)
<1>1. \A h \in Hours : added(h) \in Seq(Lines) /\ content[h] \in Seq(Lines)
  BY DEF StreamTypeOK
<1>2. content' = [h \in Hours |-> content[h] \o added(h)]
  BY DEF AppendToFiles
<1> HIDE DEF added
<1> QED
  BY <1>1, <1>2

LEMMA OpenCurrentHourLoc ==
    ASSUME StreamTypeOK, NEW r \in Receivers, OpenCurrentHour(r)
    PROVE  \A h \in Hours : loc'[h] = loc[h] \/ (h = hour /\ loc'[h] = "stream")
BY DEF OpenCurrentHour, StreamTypeOK

LEMMA StreamStepGrows == StreamTypeOK /\ StreamNext => FilesGrow
<1> SUFFICES ASSUME StreamTypeOK, StreamNext PROVE FilesGrow
  OBVIOUS
<1>0. hour \in Int
  BY DEF StreamTypeOK, Hours
<1>1. CASE UNCHANGED <<content, loc>> /\ hour' \in {hour, hour + 1}
  BY <1>0, <1>1 DEF FilesGrow, StreamTypeOK
<1>2. ASSUME NEW r \in Receivers, StopReceiver(r) PROVE FilesGrow
  <2>1. \A h \in Hours : content[h] \in Seq(Lines) /\ buf[r] \in Seq(Lines)
    BY DEF StreamTypeOK
  <2>2. \A h \in Hours : content'[h] = content[h] \/ content'[h] = content[h] \o buf[r]
    BY <1>2 DEF StopReceiver
  <2>3. UNCHANGED <<hour, loc>>
    BY <1>2 DEF StopReceiver, ForgetWriter
  <2>4. ASSUME NEW h \in Hours
        PROVE  /\ Len(content[h]) <= Len(content'[h])
               /\ \A i \in 1 .. Len(content[h]) : content'[h][i] = content[h][i]
    <3>1. content[h] \in Seq(Lines) /\ buf[r] \in Seq(Lines)
      BY <2>1
    <3>2. CASE content'[h] = content[h]
      BY <3>1, <3>2
    <3>3. CASE content'[h] = content[h] \o buf[r]
      <4> DEFINE c == content[h]
                 b == buf[r]
      <4>1. Len(c) <= Len(c \o b) /\ \A i \in 1 .. Len(c) : (c \o b)[i] = c[i]
        <5>1. c \in Seq(Lines) /\ b \in Seq(Lines)
          BY <3>1
        <5> HIDE DEF c, b
        <5> QED
          BY <5>1, ConcatKeepsPrefix
      <4> QED
        BY <4>1, <3>3, Zenon
    <3> QED
      BY <3>2, <3>3, <2>2
  <2>5. \A h \in Hours :
              /\ Len(content[h]) <= Len(content'[h])
              /\ \A i \in 1 .. Len(content[h]) : content'[h][i] = content[h][i]
    BY <2>4
  <2>6. (\A h \in Hours : loc'[h] = loc[h]) /\ hour <= hour'
    BY <1>0, <2>3
  <2> QED
    BY <2>5, <2>6 DEF FilesGrow
<1>3. ASSUME NEW r \in Receivers, NEW line \in Sent, ReceiveAndFlush(r, line)
      PROVE  FilesGrow
  <2>1. Append(Held(r), line) \in Seq(Lines)
    BY StreamAssumption DEF StreamAssumption, StreamTypeOK, Held
  <2>2. \A h \in Hours :
              /\ Len(content[h]) <= Len(content'[h])
              /\ \A i \in 1 .. Len(content[h]) : content'[h][i] = content[h][i]
    BY <1>3, <2>1, AppendToFilesGrows DEF ReceiveAndFlush
  <2>3. \A h \in Hours : loc'[h] = loc[h] \/ (h = hour /\ loc'[h] = "stream")
    BY <1>3, OpenCurrentHourLoc DEF ReceiveAndFlush
  <2>4. hour <= hour'
    BY <1>0, <1>3 DEF ReceiveAndFlush
  <2> QED
    BY <2>2, <2>3, <2>4 DEF FilesGrow
<1>4. ASSUME NEW r \in Receivers, NEW line \in Sent, NEW spill \in BOOLEAN,
             ReceiveAndHold(r, line, spill)
      PROVE  FilesGrow
  <2>1. (IF spill THEN Held(r) ELSE << >>) \in Seq(Lines)
    BY DEF StreamTypeOK, Held
  <2>2. \A h \in Hours :
              /\ Len(content[h]) <= Len(content'[h])
              /\ \A i \in 1 .. Len(content[h]) : content'[h][i] = content[h][i]
    BY <1>4, <2>1, AppendToFilesGrows DEF ReceiveAndHold
  <2>3. \A h \in Hours : loc'[h] = loc[h] \/ (h = hour /\ loc'[h] = "stream")
    BY <1>4, OpenCurrentHourLoc DEF ReceiveAndHold
  <2>4. hour <= hour'
    BY <1>0, <1>4 DEF ReceiveAndHold
  <2> QED
    BY <2>2, <2>3, <2>4 DEF FilesGrow
<1> QED
  BY <1>1, <1>2, <1>3, <1>4
  DEF StreamNext, ClockTick, KillReceiver, ForgetWriter, StartReceiver, fileVars

\* A growing file keeps every line in its place.
LEMMA OnDiskGrows ==
    ASSUME StreamTypeOK, StreamTypeOK', FilesGrow
    PROVE  /\ OnDisk \subseteq OnDisk'
           /\ \A p \in OnDisk : DayOf(p)' = DayOf(p)
<1> SUFFICES ASSUME NEW p \in OnDisk PROVE p \in OnDisk' /\ DayOf(p)' = DayOf(p)
  OBVIOUS
<1>1. PICK h \in Hours : p \in {h} \X (1 .. Len(content[h]))
  BY DEF OnDisk
<1>2. p[1] = h /\ p[2] \in 1 .. Len(content[h]) /\ p = <<h, p[2]>>
  BY <1>1
<1>3. Len(content[h]) \in Nat /\ Len(content'[h]) \in Nat /\ Len(content[h]) <= Len(content'[h])
  BY DEF StreamTypeOK, FilesGrow
<1>4. p[2] \in 1 .. Len(content'[h])
  BY <1>2, <1>3
<1>5. p \in OnDisk'
  BY <1>2, <1>4 DEF OnDisk
<1>6. content'[p[1]][p[2]] = content[p[1]][p[2]]
  BY <1>2 DEF FilesGrow
<1> QED
  BY <1>5, <1>6 DEF DayOf

-----------------------------------------------------------------------------
(* ReceiverInv *)

LEMMA ReceiverInvInit == Init => ReceiverInv
BY StreamAssumption DEF StreamAssumption, Init, StreamInit, ReceiverInv, NoHour, Hours

LEMMA ReceiverInvStream == StreamTypeOK /\ ReceiverInv /\ StreamNext => ReceiverInv'
<1> SUFFICES ASSUME StreamTypeOK, ReceiverInv, StreamNext, NEW q \in Receivers
             PROVE  /\ Len(buf'[q]) <= writes'[q] /\ writes'[q] < FlushEvery
                    /\ openHour'[q] <= hour'
                    /\ openHour'[q] # NoHour => loc'[openHour'[q]] # "absent"
  BY DEF ReceiverInv
<1> USE StreamAssumption DEF StreamAssumption
<1>a. /\ Len(buf[q]) <= writes[q] /\ writes[q] < FlushEvery
      /\ openHour[q] <= hour
      /\ openHour[q] # NoHour => loc[openHour[q]] # "absent"
  BY DEF ReceiverInv
<1>b. /\ buf[q] \in Seq(Lines) /\ writes[q] \in Nat /\ hour \in Nat
      /\ openHour[q] \in Hours \cup {NoHour}
  BY DEF StreamTypeOK, Hours
<1>1. CASE ClockTick
  BY <1>1, <1>a, <1>b DEF ClockTick, fileVars, receiverVars, Hours, NoHour
<1>2. ASSUME NEW r \in Receivers, up[r], ForgetWriter(r) PROVE
                    /\ Len(buf'[q]) <= writes'[q] /\ writes'[q] < FlushEvery
                    /\ openHour'[q] <= hour'
                    /\ openHour'[q] # NoHour => loc'[openHour'[q]] # "absent"
  <2>1. CASE q = r
    BY <1>2, <2>1, <1>b DEF ForgetWriter, StreamTypeOK, NoHour
  <2>2. CASE q # r
    BY <1>2, <2>2, <1>a DEF ForgetWriter, StreamTypeOK
  <2> QED
    BY <2>1, <2>2
<1>3. ASSUME NEW r \in Receivers, StartReceiver(r) PROVE
                    /\ Len(buf'[q]) <= writes'[q] /\ writes'[q] < FlushEvery
                    /\ openHour'[q] <= hour'
                    /\ openHour'[q] # NoHour => loc'[openHour'[q]] # "absent"
  BY <1>3, <1>a DEF StartReceiver, fileVars
<1>4. ASSUME NEW r \in Receivers, OpenCurrentHour(r), hour' = hour
      PROVE  /\ openHour'[q] <= hour'
             /\ openHour'[q] # NoHour => loc'[openHour'[q]] # "absent"
  <2>1. hour \in Hours /\ loc \in [Hours -> Places]
    BY DEF StreamTypeOK
  <2>2. \A h \in Hours : loc[h] # "absent" => loc'[h] # "absent"
    BY <1>4, OpenCurrentHourLoc
  <2>3. CASE q = r /\ openHour[r] # hour
    <3>1. openHour'[q] = hour /\ loc'[hour] = "stream"
      BY <1>4, <2>1, <2>3 DEF OpenCurrentHour, StreamTypeOK
    <3> QED
      BY <3>1, <1>4, <1>b
  <2>4. CASE ~(q = r /\ openHour[r] # hour)
    <3>1. openHour'[q] = openHour[q]
      BY <1>4, <2>4 DEF OpenCurrentHour, StreamTypeOK
    <3> QED
      BY <3>1, <1>4, <2>2, <1>a, <1>b
  <2> QED
    BY <2>3, <2>4
<1>5. ASSUME NEW r \in Receivers, NEW line \in Sent, ReceiveAndFlush(r, line)
      PROVE  Len(buf'[q]) <= writes'[q] /\ writes'[q] < FlushEvery
  BY <1>5, <1>a DEF ReceiveAndFlush, StreamTypeOK
<1>6. ASSUME NEW r \in Receivers, NEW line \in Sent, NEW spill \in BOOLEAN,
             ReceiveAndHold(r, line, spill)
      PROVE  Len(buf'[q]) <= writes'[q] /\ writes'[q] < FlushEvery
  <2>1. CASE q = r
    <3>1. Held(r) \in Seq(Lines) /\ Counted(r) \in Nat /\ Len(Held(r)) <= Counted(r)
      BY <2>1, <1>a, <1>b DEF Held, Counted
    <3>2. Len(Append(Held(r), line)) = Len(Held(r)) + 1 /\ Len(<<line>>) = 1
      BY <3>1
    <3>3. Counted(r) + 1 < FlushEvery
      BY <1>6, <3>1 DEF ReceiveAndHold, FlushDue
    <3>4. writes'[q] = Counted(r) + 1
      BY <1>6, <2>1 DEF ReceiveAndHold, StreamTypeOK
    <3>5. buf'[q] = IF spill THEN <<line>> ELSE Append(Held(r), line)
      BY <1>6, <2>1 DEF ReceiveAndHold, StreamTypeOK
    <3>6. Len(buf'[q]) <= Len(Held(r)) + 1 /\ Len(Held(r)) \in Nat
      BY <3>1, <3>2, <3>5
    <3> QED
      BY <3>1, <3>3, <3>4, <3>6
  <2>2. CASE q # r
    BY <1>6, <2>2, <1>a DEF ReceiveAndHold, StreamTypeOK
  <2> QED
    BY <2>1, <2>2
<1> QED
  BY <1>1, <1>2, <1>3, <1>4, <1>5, <1>6
  DEF StreamNext, StopReceiver, KillReceiver, ReceiveAndFlush, ReceiveAndHold

-----------------------------------------------------------------------------
(* A step of the stream leaves the processor's part of IInv standing *)

LEMMA CopiesFacts ==
    ASSUME ProcessorTypeOK
    PROVE  /\ \A p : Copies(p) \in Nat
           /\ \A p : p \notin BagToSet(rows) => Copies(p) = 0
BY DEF ProcessorTypeOK, Copies, BagIn, BagToSet, IsABag

LEMMA StreamKeepsControl ==
    ASSUME TypeOK, TypeOK', ControlInv, FilesGrow, UNCHANGED processorVars
    PROVE  ControlInv'
<1> USE DEF processorVars, durableVars, faultVars, loopVars
<1>0. hour \in Int /\ hour' \in Int /\ cur \in Hours /\ todo \subseteq Hours /\ Hours \subseteq Int
  BY DEF TypeOK, StreamTypeOK, ProcessorTypeOK, Hours
<1>1. \A h \in Hours : loc'[h] = loc[h] \/ (h = hour /\ loc'[h] = "stream")
  BY DEF FilesGrow
<1>2. hour <= hour'
  BY DEF FilesGrow
<1>3. after' \in {"idle", "parse", "move"} /\ (pc' # "insert" => flushed' = {})
  BY DEF ControlInv
<1>4. \A h \in todo' : loc'[h] = "stream"
  BY <1>0, <1>1 DEF ControlInv
<1>5. Reading' \/ Archiving' \/ pc' = "archive" => loc'[cur'] = "stream" /\ cur' \notin todo'
  BY <1>0, <1>1 DEF ControlInv, Reading, Archiving
<1>6. \A h \in Hours : loc'[h] \in {"processed", "deleted"} => h < hour'
  BY <1>0, <1>1, <1>2 DEF ControlInv
<1>7. pc' = "forget" => loc'[cur'] = "processed"
  BY <1>0, <1>1 DEF ControlInv
<1>8. Archiving' => cur' < hour'
  BY <1>0, <1>2 DEF ControlInv, Archiving
<1> QED
  BY <1>3, <1>4, <1>5, <1>6, <1>7, <1>8 DEF ControlInv

LEMMA StreamKeepsOffset ==
    ASSUME TypeOK, TypeOK', OffsetInv, FilesGrow, UNCHANGED processorVars
    PROVE  OffsetInv'
<1> USE DEF processorVars, durableVars, faultVars, loopVars
<1>1. \A h \in Hours : /\ Len(content[h]) \in Nat /\ Len(content'[h]) \in Nat
                       /\ Len(content[h]) <= Len(content'[h])
                       /\ offset[h] \in Nat
  <2> SUFFICES ASSUME NEW h \in Hours
               PROVE  /\ Len(content[h]) \in Nat /\ Len(content'[h]) \in Nat
                      /\ Len(content[h]) <= Len(content'[h])
                      /\ offset[h] \in Nat
    OBVIOUS
  <2>1. content[h] \in Seq(Lines) /\ content'[h] \in Seq(Lines)
    BY DEF TypeOK, StreamTypeOK
  <2>2. offset[h] \in Nat
    BY DEF TypeOK, ProcessorTypeOK
  <2> QED
    BY <2>1, <2>2 DEF FilesGrow
<1>2. cur \in Hours /\ eof \in Nat /\ pos \in Nat
  BY DEF TypeOK, ProcessorTypeOK
<1> QED
  BY <1>1, <1>2 DEF OffsetInv, Reading

LEMMA StreamKeepsBatch ==
    ASSUME TypeOK, TypeOK', ControlInv, BatchInv, FilesGrow, UNCHANGED processorVars
    PROVE  BatchInv'
<1> USE DEF processorVars, durableVars, faultVars, loopVars
<1>1. batch \subseteq OnDisk /\ OnDisk \subseteq OnDisk'
  BY OnDiskGrows DEF TypeOK, BatchInv
<1>2. \A p \in batch : p[1] \in Hours
  BY DEF TypeOK, ProcessorTypeOK
<1>3. \A p \in batch : loc'[p[1]] = "stream"
  BY <1>2 DEF BatchInv, FilesGrow
<1>4. \A p \in batch : p[2] <= Progress(p[1])'
  BY DEF BatchInv, Progress, Reading
<1>5. AtRisk' = AtRisk
  BY DEF AtRisk
<1>6. \A p \in batch' : /\ p \in OnDisk'
                        /\ loc'[p[1]] = "stream"
                        /\ p[2] <= Progress(p[1])'
  BY <1>1, <1>3, <1>4
<1> QED
  BY <1>5, <1>6 DEF BatchInv

LEMMA StreamKeepsRows ==
    ASSUME TypeOK, TypeOK', ControlInv, BatchInv, RowsInv, FilesGrow, UNCHANGED processorVars
    PROVE  RowsInv'
<1> USE DEF processorVars, durableVars, faultVars, loopVars
<1>1. OnDisk \subseteq OnDisk' /\ \A p \in OnDisk : DayOf(p)' = DayOf(p)
  BY OnDiskGrows DEF TypeOK
<1>2. \A p : Copies(p)' = Copies(p)
  BY DEF Copies
<1>3. kills \in Nat
  BY ProcessorAssumption DEF TypeOK, ProcessorTypeOK, ProcessorAssumption
<1>4. \A p : p \notin OnDisk => Copies(p) = 0
  BY CopiesFacts DEF TypeOK, RowsInv
<1>5. BagToSet(rows') \subseteq OnDisk'
  BY <1>1 DEF RowsInv
<1>6. \A p \in OnDisk' : Copies(p)' <= kills' + 1
  BY <1>2, <1>3, <1>4 DEF RowsInv
<1>7. \A p \in batch' : DayOf(p)' \notin flushed' => Copies(p)' <= kills'
  BY <1>1, <1>2 DEF RowsInv, BatchInv
<1>8. ASSUME NEW p \in OnDisk', loc'[p[1]] \in {"absent", "stream"}, p[2] > Progress(p[1])'
      PROVE  Copies(p)' <= kills'
  <2>1. CASE p \notin OnDisk
    BY <2>1, <1>2, <1>3, <1>4
  <2>2. CASE p \in OnDisk
    <3>1. p[1] \in Hours
      BY <2>2 DEF OnDisk
    <3>2. loc[p[1]] \in Places /\ hour \in Int
      BY <3>1 DEF TypeOK, StreamTypeOK, Hours
    <3>3. loc[p[1]] \in {"absent", "stream"}
      BY <1>8, <3>1, <3>2 DEF FilesGrow, ControlInv, Places
    <3>4. p[2] > Progress(p[1])
      BY <1>8 DEF Progress, Reading
    <3> QED
      BY <2>2, <3>3, <3>4, <1>2 DEF RowsInv
  <2> QED
    BY <2>1, <2>2
<1> QED
  BY <1>5, <1>6, <1>7, <1>8 DEF RowsInv

-----------------------------------------------------------------------------
(* Steps of the processor, and signals: ReceiverInv and ControlInv *)

\* The processor leaves the stream's variables alone, except in MoveFile.
LEMMA ProcessorFrame == ProcessorStep \/ Signal => UNCHANGED streamVars \/ MoveFile
BY DEF ProcessorStep, Signal, StartProcessor, StartTick, ReadFile, OpenFile, ProcessLine,
       SaveOffset, KeepFile, ArchiveFile, ForgetOffset, InsertDay, FinishFlush,
       FlushAtTickEnd, SkipFlushAtTickEnd, FinalFlush, Exit, Sigterm, ReadInterrupted,
       Kill, KillDuringInsert

LEMMA ReceiverInvProcessor ==
    StreamTypeOK /\ ReceiverInv /\ (ProcessorStep \/ Signal) => ReceiverInv'
<1> SUFFICES ASSUME StreamTypeOK, ReceiverInv, ProcessorStep \/ Signal PROVE ReceiverInv'
  OBVIOUS
<1>1. CASE UNCHANGED streamVars
  BY <1>1 DEF ReceiverInv, streamVars, fileVars, receiverVars
<1>2. CASE MoveFile
  <2>1. \A h \in Hours : loc[h] # "absent" => loc'[h] # "absent"
    BY <1>2 DEF MoveFile
  <2>2. \A r \in Receivers : openHour[r] # NoHour => openHour[r] \in Hours
    BY DEF StreamTypeOK
  <2> QED
    BY <1>2, <2>1, <2>2 DEF ReceiverInv, MoveFile, receiverVars
<1> QED
  BY <1>1, <1>2, ProcessorFrame

LEMMA ControlInvInit == Init => ControlInv
BY DEF Init, StreamInit, ProcessorInit, ControlInv, Reading, Archiving

LEMMA ControlInvStep == TypeOK /\ ControlInv /\ ProcessorStep => ControlInv'
<1> SUFFICES ASSUME TypeOK, ControlInv, ProcessorStep PROVE ControlInv'
  OBVIOUS
<1> USE DEF ControlInv, Reading, Archiving, streamVars, fileVars, durableVars, faultVars
<1>0. /\ hour \in Int /\ cur \in Int /\ cur \in Hours /\ todo \subseteq Hours
      /\ loc \in [Hours -> Places]
  BY DEF TypeOK, StreamTypeOK, ProcessorTypeOK, Hours
<1>1. CASE StartProcessor
  BY <1>1 DEF StartProcessor
<1>2. CASE StartTick
  BY <1>2 DEF StartTick, Listed
<1>3. CASE KeepFile
  BY <1>3 DEF KeepFile
<1>4. CASE ArchiveFile
  BY <1>0, <1>4 DEF ArchiveFile, Finalized
<1>5. CASE MoveFile
  <2>1. loc'[cur] = "processed" /\ \A h \in Hours : loc[h] = "stream" /\ h # cur => loc'[h] = "stream"
    BY <1>0, <1>5 DEF MoveFile
  <2>2. cur < hour /\ cur \notin todo /\ loc[cur] = "stream"
    BY <1>5 DEF MoveFile
  <2>3. \A h \in Hours : loc'[h] \in {"processed", "deleted"} =>
                            h = cur \/ loc[h] \in {"processed", "deleted"}
    BY <1>0, <1>5 DEF MoveFile
  <2>4. \A h \in todo : loc'[h] = "stream"
    BY <1>0, <2>1, <2>2
  <2>5. \A h \in Hours : loc'[h] \in {"processed", "deleted"} => h < hour
    BY <2>2, <2>3
  <2> QED
    BY <1>5, <2>1, <2>4, <2>5 DEF MoveFile
<1>6. CASE FlushAtTickEnd
  BY <1>6 DEF FlushAtTickEnd
<1>7. CASE SkipFlushAtTickEnd
  BY <1>7 DEF SkipFlushAtTickEnd
<1>8. CASE FinalFlush
  BY <1>8 DEF FinalFlush
<1>9. CASE SaveOffset
  BY <1>9 DEF SaveOffset
<1>10. CASE ForgetOffset
  BY <1>10 DEF ForgetOffset
<1>11. CASE FinishFlush
  BY <1>11 DEF FinishFlush
<1>12. CASE Exit
  BY <1>12 DEF Exit, ProcessEnds
<1>13. ASSUME NEW h \in Hours, ReadFile(h) PROVE ControlInv'
  BY <1>13 DEF ReadFile, OpenFile
<1>14. ASSUME NEW j \in pos + 1 .. eof, ProcessLine(j) PROVE ControlInv'
  BY <1>14 DEF ProcessLine
<1>15. ASSUME NEW d \in Days, InsertDay(d) PROVE ControlInv'
  BY <1>15 DEF InsertDay
<1> QED
  BY <1>1, <1>2, <1>3, <1>4, <1>5, <1>6, <1>7, <1>8, <1>9, <1>10, <1>11, <1>12, <1>13, <1>14, <1>15
  DEF ProcessorStep

LEMMA ControlInvSignal == TypeOK /\ ControlInv /\ Signal => ControlInv'
<1> SUFFICES ASSUME TypeOK, ControlInv, Signal PROVE ControlInv'
  OBVIOUS
<1> USE DEF ControlInv, Reading, Archiving, streamVars, fileVars, durableVars
<1>1. CASE Sigterm
  BY <1>1 DEF Sigterm
<1>2. ASSUME NEW h \in Hours, ReadInterrupted(h) PROVE ControlInv'
  BY <1>2 DEF ReadInterrupted, OpenFile
<1>3. CASE Kill
  BY <1>3 DEF Kill, ProcessEnds
<1>4. ASSUME NEW d \in Days, NEW some \in SUBSET batch, KillDuringInsert(d, some)
      PROVE  ControlInv'
  BY <1>4 DEF KillDuringInsert, ProcessEnds
<1> QED
  BY <1>1, <1>2, <1>3, <1>4 DEF Signal

-----------------------------------------------------------------------------
(* OffsetInv *)

LEMMA OffsetInvInit == Init => OffsetInv
BY DEF Init, StreamInit, ProcessorInit, OffsetInv, Reading

LEMMA OffsetInvStep ==
    TypeOK /\ ControlInv /\ OffsetInv /\ (ProcessorStep \/ Signal) => OffsetInv'
<1> SUFFICES ASSUME TypeOK, ControlInv, OffsetInv, ProcessorStep \/ Signal PROVE OffsetInv'
  OBVIOUS
<1> USE DEF OffsetInv, Reading, streamVars, fileVars, durableVars, faultVars
<1>0. /\ cur \in Hours /\ pos \in Nat /\ eof \in Nat
      /\ offset \in [Hours -> Nat]
      /\ \A h \in Hours : Len(content[h]) \in Nat
  BY DEF TypeOK, StreamTypeOK, ProcessorTypeOK
<1>1. CASE StartProcessor
  BY <1>1 DEF StartProcessor
<1>2. CASE StartTick
  BY <1>2 DEF StartTick
<1>3. CASE KeepFile
  BY <1>3 DEF KeepFile
<1>4. CASE ArchiveFile
  BY <1>4 DEF ArchiveFile
<1>5. CASE MoveFile
  BY <1>5 DEF MoveFile
<1>6. CASE FlushAtTickEnd
  BY <1>6 DEF FlushAtTickEnd
<1>7. CASE SkipFlushAtTickEnd
  BY <1>7 DEF SkipFlushAtTickEnd
<1>8. CASE FinalFlush
  BY <1>8 DEF FinalFlush
<1>9. CASE SaveOffset
  BY <1>0, <1>9 DEF SaveOffset, SavedOffset
<1>10. CASE ForgetOffset
  BY <1>0, <1>10 DEF ForgetOffset, ForgottenOffset
<1>11. CASE FinishFlush
  BY <1>11 DEF FinishFlush, ControlInv
<1>12. CASE Exit
  BY <1>12 DEF Exit, ProcessEnds
<1>13. ASSUME NEW h \in Hours, ReadFile(h) PROVE OffsetInv'
  BY <1>0, <1>13 DEF ReadFile, OpenFile
<1>14. ASSUME NEW j \in pos + 1 .. eof, ProcessLine(j) PROVE OffsetInv'
  <2>1. offset[cur] \in Nat /\ Len(content[cur]) \in Nat /\ j \in Int /\ pos < j /\ j <= eof
    BY <1>0
  <2>2. offset[cur] <= pos /\ eof <= Len(content[cur])
    BY <1>14 DEF ProcessLine
  <2>3. /\ pos' = j
        /\ UNCHANGED <<content, offset, cur, eof>>
    BY <1>14 DEF ProcessLine
  <2>4. offset[cur] <= j
    BY <1>0, <2>1, <2>2
  <2> QED
    BY <2>1, <2>2, <2>3, <2>4
<1>15. ASSUME NEW d \in Days, InsertDay(d) PROVE OffsetInv'
  BY <1>15 DEF InsertDay
<1>16. CASE Sigterm
  BY <1>16 DEF Sigterm
<1>17. ASSUME NEW h \in Hours, ReadInterrupted(h) PROVE OffsetInv'
  BY <1>0, <1>17 DEF ReadInterrupted, OpenFile
<1>18. CASE Kill
  BY <1>18 DEF Kill, ProcessEnds
<1>19. ASSUME NEW d \in Days, NEW some \in SUBSET batch, KillDuringInsert(d, some)
       PROVE  OffsetInv'
  BY <1>19 DEF KillDuringInsert, ProcessEnds
<1> QED
  BY <1>1, <1>2, <1>3, <1>4, <1>5, <1>6, <1>7, <1>8, <1>9, <1>10, <1>11, <1>12, <1>13, <1>14, <1>15,
     <1>16, <1>17, <1>18, <1>19
  DEF ProcessorStep, Signal

-----------------------------------------------------------------------------
(* BatchInv *)

LEMMA BatchInvInit == Init => BatchInv
BY FS_EmptySet, ProcessorAssumption
DEF Init, StreamInit, ProcessorInit, BatchInv, ProcessorAssumption

\* Only ProcessLine and ForgetOffset change how far the files are read.
LEMMA ProgressKept ==
    ASSUME TypeOK, ControlInv, ProcessorStep,
           \A j \in pos + 1 .. eof : ~ProcessLine(j), ~ForgetOffset
    PROVE  \A h \in Hours : Progress(h)' = Progress(h)
<1> USE DEF Progress, Reading, durableVars
<1>0. offset \in [Hours -> Nat] /\ pos \in Nat /\ cur \in Hours
  BY DEF TypeOK, ProcessorTypeOK
<1>1. CASE SaveOffset
  BY <1>0, <1>1 DEF SaveOffset, SavedOffset
<1>2. ASSUME NEW h \in Hours, ReadFile(h) PROVE \A g \in Hours : Progress(g)' = Progress(g)
  BY <1>0, <1>2 DEF ReadFile, OpenFile
<1>3. CASE StartProcessor \/ StartTick \/ KeepFile \/ ArchiveFile \/ MoveFile
  BY <1>3 DEF StartProcessor, StartTick, KeepFile, ArchiveFile, MoveFile
<1>4. CASE FlushAtTickEnd \/ SkipFlushAtTickEnd \/ FinalFlush \/ Exit
  BY <1>4 DEF FlushAtTickEnd, SkipFlushAtTickEnd, FinalFlush, Exit, ProcessEnds
<1>5. CASE FinishFlush
  BY <1>5 DEF FinishFlush, ControlInv
<1>6. ASSUME NEW d \in Days, InsertDay(d) PROVE \A h \in Hours : Progress(h)' = Progress(h)
  BY <1>6 DEF InsertDay
<1> QED
  BY <1>1, <1>2, <1>3, <1>4, <1>5, <1>6 DEF ProcessorStep

\* The same for a SIGTERM, which may interrupt the reading of a file.
LEMMA ProgressKeptBySigterm ==
    ASSUME TypeOK, Sigterm \/ \E h \in Hours : ReadInterrupted(h)
    PROVE  \A h \in Hours : Progress(h)' = Progress(h)
BY DEF Progress, Reading, durableVars, Sigterm, ReadInterrupted, OpenFile, TypeOK, ProcessorTypeOK

\* What the batch holds is where BatchInv says when the step changes neither the batch,
\* nor the files, nor how far they are read.
LEMMA BatchPlacesKept ==
    ASSUME TypeOK, BatchInv, UNCHANGED <<content, batch, loc>>,
           \A h \in Hours : Progress(h)' = Progress(h)
    PROVE  \A p \in batch' : /\ p \in OnDisk'
                             /\ loc'[p[1]] = "stream"
                             /\ p[2] <= Progress(p[1])'
<1>1. \A p \in batch : p[1] \in Hours
  BY DEF TypeOK, ProcessorTypeOK
<1> QED
  BY <1>1 DEF BatchInv, OnDisk

LEMMA BatchInvProcessLine ==
    ASSUME TypeOK, ControlInv, OffsetInv, BatchInv, NEW j \in pos + 1 .. eof, ProcessLine(j)
    PROVE  BatchInv'
<1> DEFINE new == <<cur, pos + 1>>
<1>0. /\ cur \in Hours /\ pos \in Nat /\ eof \in Nat /\ j \in Int /\ pos < j /\ j <= eof
      /\ offset[cur] \in Nat /\ Len(content[cur]) \in Nat /\ BatchSize \in Nat
  BY ProcessorAssumption DEF TypeOK, ProcessorTypeOK, StreamTypeOK, ProcessorAssumption
<1>1. /\ pc = "parse" /\ pos' = j
      /\ batch' = batch \/ batch' = batch \cup {new}
      /\ IF BatchFull(batch') THEN pc' = "insert" /\ after' = "parse"
                              ELSE pc' = pc /\ after' = after
      /\ UNCHANGED <<content, loc, offset, cur>>
  BY DEF ProcessLine, streamVars, fileVars, durableVars
<1>2. offset[cur] <= pos /\ eof <= Len(content[cur]) /\ loc[cur] = "stream"
  BY <1>1 DEF OffsetInv, ControlInv, Reading
<1>3. IsFiniteSet(batch) /\ Cardinality(batch) < BatchSize /\ Cardinality(batch) \in Nat
  BY <1>1, FS_CardinalityType DEF BatchInv
<1>4. /\ IsFiniteSet(batch') /\ Cardinality(batch') \in Nat
      /\ Cardinality(batch') <= BatchSize
  <2>1. IsFiniteSet(batch \cup {new})
         /\ Cardinality(batch \cup {new}) \in {Cardinality(batch), Cardinality(batch) + 1}
    BY <1>3, FS_AddElement
  <2>2. IsFiniteSet(batch') /\ Cardinality(batch') \in {Cardinality(batch), Cardinality(batch) + 1}
    BY <1>1, <1>3, <2>1, Zenon
  <2> QED
    BY <1>0, <1>3, <2>2
<1>5. ~(pc' = "insert" /\ after' = "parse") => Cardinality(batch') < BatchSize
  BY <1>0, <1>1, <1>4 DEF BatchFull
<1>6. pc' = "insert" /\ after' = "parse" => \E p \in batch' : p \notin AtRisk'
  <2>1. pc' = "insert" => Cardinality(batch') >= BatchSize
    BY <1>1 DEF BatchFull
  <2>2. pc' = "insert" => new \in batch'
    BY <1>0, <1>1, <1>3, <2>1
  <2>3. ~(new[2] <= offset'[new[1]])
    BY <1>0, <1>1, <1>2
  <2> QED
    BY <2>2, <2>3 DEF AtRisk
<1>7. new \in OnDisk' /\ loc'[new[1]] = "stream" /\ new[2] <= Progress(new[1])'
  <2>1. Progress(cur)' = j
    BY <1>1 DEF Progress, Reading
  <2>2. pos + 1 \in 1 .. Len(content'[cur])
    BY <1>0, <1>1, <1>2
  <2> QED
    BY <1>0, <1>1, <1>2, <2>1, <2>2 DEF OnDisk
<1>8. \A p \in batch : p \in OnDisk' /\ loc'[p[1]] = "stream" /\ p[2] <= Progress(p[1])'
  <2> SUFFICES ASSUME NEW p \in batch
               PROVE  p \in OnDisk' /\ loc'[p[1]] = "stream" /\ p[2] <= Progress(p[1])'
    OBVIOUS
  <2>1. p[1] \in Hours /\ p[2] \in Nat /\ p[2] <= Progress(p[1])
    BY DEF TypeOK, ProcessorTypeOK, BatchInv
  <2>2. p[2] <= Progress(p[1])'
    BY <1>0, <1>1, <2>1 DEF Progress, Reading
  <2> QED
    BY <1>1, <2>2 DEF BatchInv, OnDisk
<1>9. pc' \notin {"move", "forget"}
  BY <1>1
<1> QED
  BY <1>1, <1>4, <1>5, <1>6, <1>7, <1>8, <1>9 DEF BatchInv

LEMMA BatchInvStep ==
    TypeOK /\ ControlInv /\ OffsetInv /\ BatchInv /\ ProcessorStep => BatchInv'
<1> SUFFICES ASSUME TypeOK, ControlInv, OffsetInv, BatchInv, ProcessorStep PROVE BatchInv'
  OBVIOUS
<1>0. BatchSize \in Nat \ {0}
  BY ProcessorAssumption DEF ProcessorAssumption
<1>1. ASSUME NEW j \in pos + 1 .. eof, ProcessLine(j) PROVE BatchInv'
  BY <1>1, BatchInvProcessLine
<1>2. CASE batch' = {} /\ ~(pc' = "insert" /\ after' = "parse")
  BY <1>0, <1>2, FS_EmptySet DEF BatchInv
<1>3. CASE ForgetOffset
  BY <1>2, <1>3 DEF ForgetOffset, BatchInv
<1>4. CASE FinishFlush \/ Exit
  BY <1>2, <1>4 DEF FinishFlush, BatchCleared, Exit, ProcessEnds
<1>5. CASE MoveFile
  BY <1>2, <1>5 DEF MoveFile, BatchInv
<1>6. ASSUME UNCHANGED <<streamVars, batch>>, \A h \in Hours : Progress(h)' = Progress(h)
      PROVE  \A p \in batch' : /\ p \in OnDisk'
                               /\ loc'[p[1]] = "stream"
                               /\ p[2] <= Progress(p[1])'
  BY <1>6, BatchPlacesKept DEF streamVars, fileVars
<1>7. CASE \E d \in Days : InsertDay(d)
  <2>1. AtRisk' = AtRisk /\ UNCHANGED <<streamVars, batch, pc, after>>
    BY <1>7 DEF InsertDay, AtRisk
  <2>2. \A h \in Hours : Progress(h)' = Progress(h)
    BY <1>7 DEF InsertDay, Progress, Reading
  <2> QED
    BY <1>6, <2>1, <2>2 DEF BatchInv
<1>8. ASSUME UNCHANGED <<streamVars, batch>>, \A h \in Hours : Progress(h)' = Progress(h),
             ~(pc = "insert" /\ after = "parse"), ~(pc' = "insert" /\ after' = "parse"),
             pc' \in {"move", "forget"} => batch = {}
      PROVE  BatchInv'
  BY <1>6, <1>8 DEF BatchInv
<1>9. CASE SaveOffset
  BY <1>1, <1>8, <1>9, ProgressKept DEF SaveOffset, ForgetOffset, ProcessLine
<1>10. CASE \E h \in Hours : ReadFile(h)
  BY <1>8, <1>10, ProgressKept DEF ReadFile, OpenFile, ForgetOffset, ProcessLine
<1>11. CASE StartProcessor \/ StartTick \/ KeepFile
  BY <1>8, <1>11, ProgressKept DEF StartProcessor, StartTick, KeepFile, ForgetOffset, ProcessLine
<1>12. CASE FlushAtTickEnd \/ SkipFlushAtTickEnd \/ FinalFlush
  BY <1>8, <1>12, ProgressKept
  DEF FlushAtTickEnd, SkipFlushAtTickEnd, FinalFlush, ForgetOffset, ProcessLine
<1>13. CASE ArchiveFile
  BY <1>8, <1>13, ProgressKept DEF ArchiveFile, NothingToForce, ForgetOffset, ProcessLine
<1> QED
  BY <1>1, <1>3, <1>4, <1>5, <1>7, <1>9, <1>10, <1>11, <1>12, <1>13 DEF ProcessorStep

LEMMA BatchInvSignal == TypeOK /\ BatchInv /\ Signal => BatchInv'
<1> SUFFICES ASSUME TypeOK, BatchInv, Signal PROVE BatchInv'
  OBVIOUS
<1>1. CASE Kill \/ \E d \in Days, some \in SUBSET batch : KillDuringInsert(d, some)
  <2>1. batch' = {} /\ pc' = "down"
    BY <1>1 DEF Kill, KillDuringInsert, ProcessEnds
  <2> QED
    BY <2>1, FS_EmptySet, ProcessorAssumption DEF BatchInv, ProcessorAssumption
<1>2. CASE Sigterm \/ \E h \in Hours : ReadInterrupted(h)
  <2>1. UNCHANGED <<content, batch, loc, offset>> /\ AtRisk' = AtRisk
    BY <1>2 DEF Sigterm, ReadInterrupted, OpenFile, AtRisk, streamVars, fileVars, durableVars
  <2>2. \A p \in batch' : p \in OnDisk' /\ loc'[p[1]] = "stream" /\ p[2] <= Progress(p[1])'
    BY <1>2, <2>1, ProgressKeptBySigterm, BatchPlacesKept
  <2>3. (pc' = pc /\ after' = after) \/ (pc = "next" /\ pc' = "parse")
    BY <1>2 DEF Sigterm, ReadInterrupted, OpenFile
  <2> QED
    BY <2>1, <2>2, <2>3 DEF BatchInv
<1> QED
  BY <1>1, <1>2 DEF Signal

-----------------------------------------------------------------------------
(* RowsInv *)

LEMMA RowsInvInit == Init => RowsInv
BY EmptyBagIsABag DEF Init, StreamInit, ProcessorInit, RowsInv, Copies, BagIn, BagToSet

\* A step that inserts nothing, and reads on, leaves RowsInv standing when the batch
\* keeps its records, loses them, or gains one that was not read yet.
LEMMA RowsInvNoInsert ==
    ASSUME TypeOK, BatchInv, RowsInv,
           UNCHANGED <<content, rows>>, kills <= kills', kills' \in Nat,
           flushed \subseteq flushed' \/ batch' = {},
           \A p \in batch' \ batch : Copies(p) <= kills,
           \A p \in OnDisk : loc'[p[1]] \in {"absent", "stream"} /\ p[2] > Progress(p[1])'
                             => Copies(p) <= kills'
    PROVE  RowsInv'
<1>1. OnDisk' = OnDisk /\ (\A p : DayOf(p)' = DayOf(p)) /\ (\A p : Copies(p)' = Copies(p))
  BY DEF OnDisk, DayOf, Copies
<1>2. kills \in Nat /\ \A p : Copies(p) \in Nat
  BY CopiesFacts, ProcessorAssumption DEF TypeOK, ProcessorTypeOK, ProcessorAssumption
<1>3. \A p \in OnDisk : Copies(p) <= kills' + 1
  BY <1>2 DEF RowsInv
<1>4. \A p \in batch' : DayOf(p) \notin flushed' => Copies(p) <= kills'
  BY <1>2 DEF RowsInv
<1> QED
  BY <1>1, <1>3, <1>4 DEF RowsInv

\* The copies after S, a set of records of the batch, was inserted.
LEMMA CopiesAfterInsert ==
    ASSUME ProcessorTypeOK, NEW S \in SUBSET batch, rows' = rows (+) SetToBag(S)
    PROVE  /\ BagToSet(rows') = BagToSet(rows) \cup S
           /\ \A p : Copies(p)' = Copies(p) + (IF p \in S THEN 1 ELSE 0)
<1>1. /\ IsABag(rows') /\ BagToSet(rows') = BagToSet(rows) \cup S
      /\ \A p \in BagToSet(rows) \cup S :
            rows'[p] = (IF BagIn(p, rows) THEN rows[p] ELSE 0) + (IF p \in S THEN 1 ELSE 0)
  BY BagPlusSet DEF ProcessorTypeOK
<1>2. \A p : BagIn(p, rows) <=> p \in BagToSet(rows)
  BY DEF BagIn
<1>3. \A p : BagIn(p, rows') <=> p \in BagToSet(rows')
  BY DEF BagIn
<1>4. ASSUME NEW p PROVE Copies(p)' = Copies(p) + (IF p \in S THEN 1 ELSE 0)
  <2>1. CASE p \in BagToSet(rows) \cup S
    BY <1>1, <1>3, <2>1 DEF Copies
  <2>2. CASE p \notin BagToSet(rows) \cup S
    BY <1>1, <1>2, <1>3, <2>2 DEF Copies
  <2> QED
    BY <2>1, <2>2
<1> QED
  BY <1>1, <1>4

LEMMA RowsInvStep ==
    TypeOK /\ ControlInv /\ OffsetInv /\ BatchInv /\ RowsInv /\ ProcessorStep => RowsInv'
<1> SUFFICES ASSUME TypeOK, ControlInv, OffsetInv, BatchInv, RowsInv, ProcessorStep
             PROVE  RowsInv'
  OBVIOUS
<1> USE DEF streamVars, fileVars, durableVars, faultVars
<1>0. /\ kills \in Nat /\ cur \in Hours /\ pos \in Nat /\ eof \in Nat
      /\ \A p : Copies(p) \in Nat
      /\ \A p \in OnDisk : p[1] \in Hours
      /\ \A h \in Hours : Len(content[h]) \in Nat
  BY CopiesFacts, ProcessorAssumption
  DEF TypeOK, StreamTypeOK, ProcessorTypeOK, ProcessorAssumption, OnDisk
<1>1. ASSUME NEW j \in pos + 1 .. eof, ProcessLine(j) PROVE RowsInv'
  <2>1. /\ pc = "parse" /\ pos' = j /\ batch' \subseteq batch \cup {<<cur, pos + 1>>}
        /\ UNCHANGED <<content, loc, offset, cur, rows, kills, flushed>>
        /\ Reading /\ Reading'
    BY <1>1 DEF ProcessLine, Reading
  <2>2. loc[cur] = "stream" /\ eof <= Len(content[cur])
    BY <2>1 DEF ControlInv, OffsetInv
  <2>3. Copies(<<cur, pos + 1>>) <= kills
    <3>1. pos + 1 \in 1 .. Len(content[cur])
      BY <1>0, <2>2
    <3>2. <<cur, pos + 1>> \in OnDisk
      BY <1>0, <3>1 DEF OnDisk
    <3>3. Progress(cur) = pos
      BY <2>1 DEF Progress
    <3> QED
      BY <1>0, <2>2, <3>2, <3>3 DEF RowsInv
  <2>4. \A p \in OnDisk : p[2] > Progress(p[1])' => p[2] > Progress(p[1])
    <3>1. \A p \in OnDisk : p[2] \in Nat
      BY <1>0 DEF OnDisk
    <3> QED
      BY <1>0, <2>1, <3>1 DEF Progress
  <2>5. \A p \in OnDisk : loc'[p[1]] \in {"absent", "stream"} /\ p[2] > Progress(p[1])'
                           => Copies(p) <= kills'
    BY <2>1, <2>4 DEF RowsInv
  <2> QED
    BY <1>0, <2>1, <2>3, <2>5, RowsInvNoInsert
<1>2. ASSUME NEW d \in Days, InsertDay(d) PROVE RowsInv'
  <2> DEFINE S == {p \in batch : DayOf(p) = d}
  <2>1. /\ d \notin flushed /\ flushed' = flushed \cup {d}
        /\ UNCHANGED <<content, loc, kills, batch>>
        /\ OnDisk' = OnDisk /\ \A p : DayOf(p)' = DayOf(p)
    BY <1>2 DEF InsertDay, OnDisk, DayOf
  <2>2. S \in SUBSET batch /\ rows' = rows (+) SetToBag(S)
    BY <1>2 DEF InsertDay
  <2>3. /\ BagToSet(rows') = BagToSet(rows) \cup S
        /\ \A p : Copies(p)' = Copies(p) + (IF p \in S THEN 1 ELSE 0)
    BY <2>2, CopiesAfterInsert DEF TypeOK
  <2>4. \A h \in Hours : Progress(h)' = Progress(h)
    BY <1>2 DEF InsertDay, Progress, Reading
  <2>5. \A p \in S : Copies(p) <= kills
    BY <2>1 DEF RowsInv
  <2>6. BagToSet(rows') \subseteq OnDisk'
    BY <2>1, <2>3 DEF RowsInv, BatchInv
  <2>7. \A p \in OnDisk' : Copies(p)' <= kills' + 1
    BY <1>0, <2>1, <2>3, <2>5 DEF RowsInv
  <2>8. \A p \in batch' : DayOf(p)' \notin flushed' => Copies(p)' <= kills'
    BY <1>0, <2>1, <2>3 DEF RowsInv
  <2>9. ASSUME NEW p \in OnDisk, loc'[p[1]] \in {"absent", "stream"}, p[2] > Progress(p[1])'
        PROVE  Copies(p)' <= kills'
    <3>1. p[2] > Progress(p[1])
      BY <1>0, <2>4, <2>9
    <3>2. p[2] \in Nat /\ Progress(p[1]) \in Nat
      BY <1>0 DEF OnDisk, Progress, TypeOK, ProcessorTypeOK
    <3>3. p \notin S
      BY <3>1, <3>2 DEF BatchInv
    <3> QED
      BY <1>0, <2>1, <2>3, <2>9, <3>1, <3>3 DEF RowsInv
  <2> QED
    BY <2>1, <2>6, <2>7, <2>8, <2>9 DEF RowsInv
<1>3. ASSUME UNCHANGED <<content, rows, kills>>, batch' \subseteq batch,
             flushed' = flushed \/ batch' = {},
             \A h \in Hours : loc'[h] \in {"absent", "stream"} => loc'[h] = loc[h],
             \A h \in Hours : Progress(h)' = Progress(h)
      PROVE  RowsInv'
  <2>1. \A p \in OnDisk : loc'[p[1]] \in {"absent", "stream"} /\ p[2] > Progress(p[1])'
                           => Copies(p) <= kills'
    BY <1>0, <1>3 DEF RowsInv
  <2> QED
    BY <1>0, <1>3, <2>1, RowsInvNoInsert
<1>4. CASE ForgetOffset
  <2>1. loc'[cur] \notin {"absent", "stream"}
    BY <1>4 DEF ForgetOffset, ControlInv
  <2>2. \A h \in Hours : h # cur => Progress(h)' = Progress(h)
    BY <1>4 DEF ForgetOffset, Progress, Reading, TypeOK, ProcessorTypeOK
  <2>3. \A p \in OnDisk : loc'[p[1]] \in {"absent", "stream"} /\ p[2] > Progress(p[1])'
                           => Copies(p) <= kills'
    BY <1>0, <1>4, <2>1, <2>2 DEF ForgetOffset, RowsInv
  <2> QED
    BY <1>0, <1>4, <2>3, RowsInvNoInsert DEF ForgetOffset
<1>5. CASE MoveFile
  <2>1. \A h \in Hours : loc'[h] \in {"absent", "stream"} => loc'[h] = loc[h]
    BY <1>5 DEF MoveFile
  <2> QED
    BY <1>3, <1>5, <2>1, ProgressKept DEF MoveFile, ForgetOffset, ProcessLine
<1>6. CASE SaveOffset \/ \E h \in Hours : ReadFile(h)
  BY <1>3, <1>6, ProgressKept DEF SaveOffset, ReadFile, OpenFile, ForgetOffset, ProcessLine
<1>7. CASE StartProcessor \/ StartTick \/ KeepFile \/ ArchiveFile
  BY <1>3, <1>7, ProgressKept
  DEF StartProcessor, StartTick, KeepFile, ArchiveFile, ForgetOffset, ProcessLine
<1>8. CASE FlushAtTickEnd \/ SkipFlushAtTickEnd \/ FinalFlush
  BY <1>3, <1>8, ProgressKept
  DEF FlushAtTickEnd, SkipFlushAtTickEnd, FinalFlush, ForgetOffset, ProcessLine
<1>9. CASE FinishFlush \/ Exit
  BY <1>3, <1>9, ProgressKept
  DEF FinishFlush, BatchCleared, Exit, ProcessEnds, ForgetOffset, ProcessLine
<1> QED
  BY <1>1, <1>2, <1>4, <1>5, <1>6, <1>7, <1>8, <1>9 DEF ProcessorStep

LEMMA RowsInvSignal == TypeOK /\ BatchInv /\ RowsInv /\ Signal => RowsInv'
<1> SUFFICES ASSUME TypeOK, BatchInv, RowsInv, Signal PROVE RowsInv'
  OBVIOUS
<1> USE DEF streamVars, fileVars, durableVars
<1>0. /\ kills \in Nat /\ \A p : Copies(p) \in Nat
      /\ \A p \in OnDisk : p[1] \in Hours
  BY CopiesFacts, ProcessorAssumption DEF TypeOK, ProcessorTypeOK, ProcessorAssumption, OnDisk
<1>1. CASE Sigterm \/ \E h \in Hours : ReadInterrupted(h)
  <2>1. UNCHANGED <<content, loc, rows, kills, batch, flushed>>
    BY <1>1 DEF Sigterm, ReadInterrupted, OpenFile
  <2>2. \A p \in OnDisk : loc'[p[1]] \in {"absent", "stream"} /\ p[2] > Progress(p[1])'
                           => Copies(p) <= kills'
    BY <1>0, <1>1, <2>1, ProgressKeptBySigterm DEF RowsInv
  <2> QED
    BY <1>0, <2>1, <2>2, RowsInvNoInsert
<1>2. CASE Kill
  <2>1. UNCHANGED <<content, rows>> /\ kills' = kills + 1 /\ batch' = {}
    BY <1>2 DEF Kill, ProcessEnds
  <2>2. \A p \in OnDisk : Copies(p) <= kills'
    BY <2>1 DEF RowsInv
  <2> QED
    BY <1>0, <2>1, <2>2, RowsInvNoInsert
<1>3. ASSUME NEW d \in Days, NEW some \in SUBSET batch, KillDuringInsert(d, some)
      PROVE  RowsInv'
  <2>1. UNCHANGED content /\ OnDisk' = OnDisk /\ kills' = kills + 1 /\ batch' = {}
    BY <1>3 DEF KillDuringInsert, ProcessEnds, OnDisk
  <2>2. /\ BagToSet(rows') = BagToSet(rows) \cup some
        /\ \A p : Copies(p)' = Copies(p) + (IF p \in some THEN 1 ELSE 0)
    BY <1>3, CopiesAfterInsert DEF TypeOK, KillDuringInsert
  <2>3. \A p \in some : Copies(p) <= kills
    BY <1>3 DEF KillDuringInsert, RowsInv
  <2>4. \A p \in OnDisk : Copies(p)' <= kills'
    BY <1>0, <2>1, <2>2, <2>3 DEF RowsInv
  <2>5. BagToSet(rows') \subseteq OnDisk'
    BY <2>1, <2>2 DEF RowsInv, BatchInv
  <2>6. \A p \in OnDisk' : Copies(p)' <= kills' + 1
    BY <1>0, <2>1, <2>2, <2>4
  <2> QED
    BY <2>1, <2>4, <2>5, <2>6 DEF RowsInv
<1> QED
  BY <1>1, <1>2, <1>3 DEF Signal

-----------------------------------------------------------------------------
(* ReadInv *)

LEMMA ReadInvInit == Init => ReadInv
BY DEF Init, ProcessorInit, ReadInv, Reading

\* A record's copies never become fewer.
LEMMA StoredKept ==
    ASSUME ProcessorTypeOK,
           UNCHANGED rows \/ \E S \in SUBSET batch : rows' = rows (+) SetToBag(S)
    PROVE  \A p : Stored(p) => Stored(p)'
<1>1. CASE UNCHANGED rows
  BY <1>1 DEF Stored, Copies
<1>2. CASE \E S \in SUBSET batch : rows' = rows (+) SetToBag(S)
  BY <1>2, CopiesFacts, CopiesAfterInsert DEF Stored
<1> QED
  BY <1>1, <1>2

LEMMA StreamKeepsRead ==
    ASSUME TypeOK, TypeOK', OffsetInv, BatchInv, ReadInv, FilesGrow, UNCHANGED processorVars
    PROVE  ReadInv'
<1> USE DEF processorVars, durableVars, faultVars, loopVars
<1>1. OnDisk \subseteq OnDisk' /\ \A p \in OnDisk : DayOf(p)' = DayOf(p)
  BY OnDiskGrows DEF TypeOK
<1>2. \A p : Stored(p)' = Stored(p)
  BY DEF Stored, Copies
<1>3. \A p \in batch' : DayOf(p)' \in flushed' => Stored(p)'
  BY <1>1, <1>2 DEF ReadInv, BatchInv
<1>4. ASSUME Reading', NEW p \in WholeRecords', p[1] = cur', offset'[cur'] < p[2], p[2] <= pos'
      PROVE  p \in batch' \/ Stored(p)'
  <2>1. /\ cur \in Hours /\ pos \in Nat /\ eof \in Nat
        /\ Len(content[cur]) \in Nat /\ Len(content'[cur]) \in Nat
    BY DEF TypeOK, StreamTypeOK, ProcessorTypeOK
  <2>2. pos <= eof /\ eof <= Len(content[cur])
    BY <1>4 DEF OffsetInv, Reading
  <2>3. p \in {cur} \X (1 .. Len(content'[cur]))
    BY <1>4 DEF WholeRecords, OnDisk
  <2>4. p[2] \in 1 .. Len(content[cur])
    BY <1>4, <2>1, <2>2, <2>3
  <2>5. p \in OnDisk
    BY <2>1, <2>3, <2>4 DEF OnDisk
  <2>6. content[cur][p[2]] = content'[cur][p[2]]
    BY <2>1, <2>4 DEF FilesGrow
  <2>7. p \in WholeRecords
    BY <1>4, <2>5, <2>6 DEF WholeRecords
  <2> QED
    BY <1>2, <1>4, <2>7 DEF ReadInv, Reading
<1> QED
  BY <1>3, <1>4 DEF ReadInv

LEMMA ReadInvProcessLine ==
    ASSUME TypeOK, ControlInv, OffsetInv, ReadInv, NEW j \in pos + 1 .. eof, ProcessLine(j)
    PROVE  ReadInv'
<1> USE DEF streamVars, fileVars, durableVars, faultVars
<1>0. /\ pos \in Nat /\ eof \in Nat /\ cur \in Hours /\ Len(content[cur]) \in Nat
      /\ offset[cur] \in Nat
  BY DEF TypeOK, StreamTypeOK, ProcessorTypeOK
<1>1. /\ pc = "parse" /\ pos' = j /\ Joined(pos + 1, j)
      /\ batch' = IF Parses(pos + 1, j) THEN batch \cup {<<cur, pos + 1>>} ELSE batch
      /\ UNCHANGED <<content, offset, cur, rows, flushed>>
  BY DEF ProcessLine
<1>2. WholeRecords' = WholeRecords /\ \A p : Stored(p)' = Stored(p)
  BY <1>1 DEF WholeRecords, OnDisk, Stored, Copies
<1>3. flushed' = {}
  BY <1>1 DEF ControlInv
<1>4. ASSUME NEW p \in WholeRecords, p[1] = cur, offset[cur] < p[2], p[2] <= j
      PROVE  p \in batch' \/ Stored(p)
  <2>1. p = <<cur, p[2]>> /\ p[2] \in Nat /\ content[cur][p[2]] \in Days
    BY <1>4 DEF WholeRecords, OnDisk
  <2>2. CASE p[2] <= pos
    BY <1>1, <1>4, <2>2 DEF ReadInv, Reading
  <2>3. CASE p[2] = pos + 1
    BY <1>1, <2>1, <2>3 DEF Parses
  <2>4. CASE p[2] > pos + 1
    <3>1. p[2] \in pos + 1 + 1 .. j
      BY <1>0, <1>4, <2>1, <2>4
    <3>2. content[cur][p[2]] = Rest
      BY <1>1, <3>1 DEF Joined
    <3> QED
      BY <2>1, <3>2, StreamAssumption DEF StreamAssumption
  <2> QED
    BY <1>0, <2>1, <2>2, <2>3, <2>4
<1> QED
  BY <1>1, <1>2, <1>3, <1>4 DEF ReadInv

LEMMA ReadInvStep ==
    TypeOK /\ ControlInv /\ OffsetInv /\ ReadInv /\ ProcessorStep => ReadInv'
<1> SUFFICES ASSUME TypeOK, ControlInv, OffsetInv, ReadInv, ProcessorStep PROVE ReadInv'
  OBVIOUS
<1> USE DEF streamVars, fileVars, durableVars, faultVars
<1>0. offset \in [Hours -> Nat] /\ cur \in Hours /\ pos \in Nat
  BY DEF TypeOK, ProcessorTypeOK
<1>1. ASSUME NEW j \in pos + 1 .. eof, ProcessLine(j) PROVE ReadInv'
  BY <1>1, ReadInvProcessLine
<1>2. CASE flushed' = {} /\ ~Reading'
  BY <1>2 DEF ReadInv
<1>3. ASSUME NEW h \in Hours, ReadFile(h) PROVE ReadInv'
  <2>1. flushed' = {} /\ cur' = h /\ pos' = offset[h] /\ UNCHANGED <<content, offset>>
    BY <1>3 DEF ReadFile, OpenFile, ControlInv
  <2>2. \A p \in WholeRecords' : p[2] \in Nat
    BY DEF WholeRecords, OnDisk
  <2>3. \A p \in WholeRecords' : ~(offset'[cur'] < p[2] /\ p[2] <= pos')
    BY <1>0, <2>1, <2>2
  <2> QED
    BY <2>1, <2>3 DEF ReadInv
<1>4. CASE StartProcessor \/ StartTick \/ KeepFile \/ ArchiveFile
  BY <1>2, <1>4 DEF StartProcessor, StartTick, KeepFile, ArchiveFile, Reading, ControlInv
<1>5. CASE SaveOffset \/ MoveFile \/ ForgetOffset
  BY <1>2, <1>5 DEF SaveOffset, MoveFile, ForgetOffset, Reading, ControlInv
<1>6. CASE FlushAtTickEnd \/ SkipFlushAtTickEnd \/ FinalFlush \/ Exit
  BY <1>2, <1>6
  DEF FlushAtTickEnd, SkipFlushAtTickEnd, FinalFlush, Exit, ProcessEnds, Reading, ControlInv
<1>7. ASSUME NEW d \in Days, InsertDay(d) PROVE ReadInv'
  <2> DEFINE S == {p \in batch : DayOf(p) = d}
  <2>1. /\ flushed' = flushed \cup {d}
        /\ rows' = rows (+) SetToBag(S) /\ S \in SUBSET batch
        /\ UNCHANGED <<content, offset, cur, pos, batch, pc, after>>
    BY <1>7 DEF InsertDay
  <2>2. \A p : Stored(p) => Stored(p)'
    BY <2>1, StoredKept DEF TypeOK
  <2>3. \A p \in S : Stored(p)'
    BY <2>1, CopiesFacts, CopiesAfterInsert DEF TypeOK, Stored
  <2>4. WholeRecords' = WholeRecords /\ (\A p : DayOf(p)' = DayOf(p)) /\ Reading' = Reading
    BY <2>1 DEF WholeRecords, OnDisk, DayOf, Reading
  <2>5. \A p \in batch' : DayOf(p)' \in flushed' => Stored(p)'
    BY <2>1, <2>2, <2>3, <2>4 DEF ReadInv
  <2> QED
    BY <2>1, <2>2, <2>4, <2>5 DEF ReadInv
<1>8. CASE FinishFlush
  <2>1. /\ DaysOf(batch) \subseteq flushed /\ flushed' = {} /\ batch' = {} /\ pc = "insert"
        /\ pc' = after /\ UNCHANGED <<content, offset, cur, pos, rows, after>>
    BY <1>8 DEF FinishFlush, BatchCleared
  <2>2. WholeRecords' = WholeRecords /\ \A p : Stored(p)' = Stored(p)
    BY <2>1 DEF WholeRecords, OnDisk, Stored, Copies
  <2>3. \A p \in batch : Stored(p)
    BY <2>1 DEF DaysOf, ReadInv
  <2>4. Reading' => Reading
    BY <2>1 DEF Reading, ControlInv
  <2> QED
    BY <2>1, <2>2, <2>3, <2>4 DEF ReadInv
<1> QED
  BY <1>1, <1>3, <1>4, <1>5, <1>6, <1>7, <1>8 DEF ProcessorStep

LEMMA ReadInvSignal == TypeOK /\ ControlInv /\ ReadInv /\ Signal => ReadInv'
<1> SUFFICES ASSUME TypeOK, ControlInv, ReadInv, Signal PROVE ReadInv'
  OBVIOUS
<1> USE DEF streamVars, fileVars, durableVars
<1>1. CASE Sigterm
  BY <1>1 DEF Sigterm, ReadInv, Reading, WholeRecords, OnDisk, Stored, Copies, DayOf
<1>2. ASSUME NEW h \in Hours, ReadInterrupted(h) PROVE ReadInv'
  <2>1. flushed' = {} /\ cur' = h /\ pos' = offset[h] /\ UNCHANGED <<content, offset>>
    BY <1>2 DEF ReadInterrupted, OpenFile, ControlInv
  <2>2. \A p \in WholeRecords' : p[2] \in Nat
    BY DEF WholeRecords, OnDisk
  <2>3. offset[h] \in Nat
    BY DEF TypeOK, ProcessorTypeOK
  <2>4. \A p \in WholeRecords' : ~(offset'[cur'] < p[2] /\ p[2] <= pos')
    BY <2>1, <2>2, <2>3
  <2> QED
    BY <2>1, <2>4 DEF ReadInv
<1>3. CASE Kill \/ \E d \in Days, some \in SUBSET batch : KillDuringInsert(d, some)
  <2>1. flushed' = {} /\ ~Reading'
    BY <1>3 DEF Kill, KillDuringInsert, ProcessEnds, Reading
  <2> QED
    BY <2>1 DEF ReadInv
<1> QED
  BY <1>1, <1>2, <1>3 DEF Signal

-----------------------------------------------------------------------------
(* IInv is inductive *)

LEMMA InvInit == Init => IInv
<1> SUFFICES ASSUME Init PROVE IInv
  OBVIOUS
<1>1. TypeOK
  BY StreamTypeInit, ProcessorTypeInit DEF Init, TypeOK
<1> QED
  BY <1>1, ReceiverInvInit, ControlInvInit, OffsetInvInit, BatchInvInit, RowsInvInit, ReadInvInit
  DEF IInv

LEMMA InvNext == IInv /\ [Next]_vars => IInv'
<1> SUFFICES ASSUME IInv, [Next]_vars PROVE IInv'
  OBVIOUS
<1> USE DEF IInv
<1>1. CASE StreamNext /\ UNCHANGED processorVars
  <2>1. TypeOK' /\ FilesGrow
    BY <1>1, StreamTypeStep, StreamStepGrows
    DEF TypeOK, ProcessorTypeOK, processorVars, durableVars, faultVars, loopVars
  <2>2. ReceiverInv'
    BY <1>1, ReceiverInvStream DEF TypeOK
  <2> QED
    BY <1>1, <2>1, <2>2, StreamKeepsControl, StreamKeepsOffset, StreamKeepsBatch,
       StreamKeepsRows, StreamKeepsRead
<1>2. CASE ProcessorStep
  <2>1. TypeOK'
    BY <1>2, ProcessorStepType, ProcessorKeepsStreamType DEF TypeOK
  <2> QED
    BY <1>2, <2>1, ReceiverInvProcessor, ControlInvStep, OffsetInvStep, BatchInvStep,
       RowsInvStep, ReadInvStep DEF TypeOK
<1>3. CASE Signal
  <2>1. TypeOK'
    BY <1>3, SignalType, ProcessorKeepsStreamType DEF TypeOK
  <2> QED
    BY <1>3, <2>1, ReceiverInvProcessor, ControlInvSignal, OffsetInvStep, BatchInvSignal,
       RowsInvSignal, ReadInvSignal DEF TypeOK
<1>4. CASE UNCHANGED vars
  <2> USE <1>4 DEF vars, streamVars, fileVars, receiverVars, processorVars, durableVars,
                   faultVars, loopVars
  <2>1. TypeOK'
    BY DEF TypeOK, StreamTypeOK, ProcessorTypeOK
  <2>2. ReceiverInv' /\ ControlInv' /\ OffsetInv'
    BY DEF ReceiverInv, ControlInv, OffsetInv, Reading, Archiving
  <2>3. BatchInv'
    BY DEF BatchInv, AtRisk, OnDisk, Progress, Reading
  <2>4. RowsInv'
    BY DEF RowsInv, OnDisk, Copies, DayOf, Progress, Reading
  <2>5. ReadInv'
    BY DEF ReadInv, Reading, WholeRecords, OnDisk, Stored, Copies, DayOf
  <2> QED
    BY <2>1, <2>2, <2>3, <2>4, <2>5
<1> QED
  BY <1>1, <1>2, <1>3, <1>4 DEF Next

\* The inductive invariant holds in every reachable state.
THEOREM InvariantHolds == Spec => []IInv
BY InvInit, InvNext, PTL DEF Spec

-----------------------------------------------------------------------------
(* Bounds on what a kill can take *)

LEMMA RiskBoundedInv == IInv => RiskBounded
<1> SUFFICES ASSUME IInv PROVE Cardinality(AtRisk) < BatchSize
  BY DEF RiskBounded
<1>1. /\ IsFiniteSet(batch) /\ Cardinality(batch) \in Nat /\ Cardinality(batch) <= BatchSize
      /\ BatchSize \in Nat \ {0}
  BY FS_CardinalityType, ProcessorAssumption DEF IInv, BatchInv, ProcessorAssumption
<1>2. CASE pc = "insert" /\ after = "parse"
  <2>1. PICK p \in batch : p \notin AtRisk
    BY <1>2 DEF IInv, BatchInv
  <2>2. AtRisk \subseteq batch \ {p}
    BY <2>1 DEF AtRisk
  <2>3. IsFiniteSet(batch \ {p}) /\ Cardinality(batch \ {p}) = Cardinality(batch) - 1
    BY <1>1, <2>1, FS_RemoveElement
  <2>4. Cardinality(AtRisk) <= Cardinality(batch) - 1 /\ Cardinality(AtRisk) \in Nat
    BY <2>2, <2>3, FS_Subset, FS_CardinalityType
  <2> QED
    BY <1>1, <2>4
<1>3. CASE ~(pc = "insert" /\ after = "parse")
  <2>1. AtRisk \subseteq batch
    BY DEF AtRisk
  <2>2. Cardinality(AtRisk) <= Cardinality(batch) /\ Cardinality(AtRisk) \in Nat
    BY <1>1, <2>1, FS_Subset, FS_CardinalityType
  <2>3. Cardinality(batch) < BatchSize
    BY <1>3 DEF IInv, BatchInv
  <2> QED
    BY <1>1, <2>2, <2>3
<1> QED
  BY <1>2, <1>3

\* Fewer than batch_size records are ever in the batch alone with the saved offset
\* (_process_file's offsets.save) past them: that is all a kill can take.
THEOREM RiskIsBounded == Spec => []RiskBounded
BY InvariantHolds, RiskBoundedInv, PTL

LEMMA ReceiverLossBoundedInv == IInv => ReceiverLossBounded
<1> SUFFICES ASSUME IInv, NEW r \in Receivers PROVE Len(buf[r]) < FlushEvery
  BY DEF ReceiverLossBounded
<1>1. Len(buf[r]) \in Nat /\ writes[r] \in Nat /\ FlushEvery \in Nat
  BY StreamAssumption DEF StreamAssumption, IInv, TypeOK, StreamTypeOK
<1>2. Len(buf[r]) <= writes[r] /\ writes[r] < FlushEvery
  BY DEF IInv, ReceiverInv
<1> QED
  BY <1>1, <1>2

\* A receiver's buffer, which a kill empties, holds fewer than flush_every lines
\* (HourlyStreamWriter.write_line), over rollovers, spills and restarts.
THEOREM ReceiverLossIsBounded == Spec => []ReceiverLossBounded
BY InvariantHolds, ReceiverLossBoundedInv, PTL

-----------------------------------------------------------------------------
(* Archiving *)

\* No record of an archived file is still in the batch (_maybe_archive flushes before it
\* calls archive_processed).
THEOREM BatchStaysInStream == Spec => []BatchInStream
<1>1. IInv => BatchInStream
  BY DEF IInv, BatchInv, BatchInStream
<1> QED
  BY <1>1, InvariantHolds, PTL

LEMMA WriterNotDetachedInv == IInv => WriterNotDetached
<1> SUFFICES ASSUME IInv, NEW r \in Receivers, openHour[r] = hour PROVE loc[hour] = "stream"
  BY DEF WriterNotDetached
<1>1. hour \in Hours /\ loc[hour] \in Places
  BY DEF IInv, TypeOK, StreamTypeOK
<1>2. loc[hour] # "absent"
  BY <1>1 DEF Hours, IInv, ReceiverInv, NoHour
<1>3. loc[hour] \notin {"processed", "deleted"}
  <2>1. hour \in Int
    BY <1>1 DEF Hours
  <2>2. ~(hour < hour)
    BY <2>1
  <2> QED
    BY <1>1, <2>2 DEF IInv, ControlInv
<1> QED
  BY <1>1, <1>2, <1>3 DEF Places

\* The file that a receiver has open for the current hour stays in the stream
\* directory (is_finalized).
THEOREM WriterIsNotDetached == Spec => []WriterNotDetached
BY InvariantHolds, WriterNotDetachedInv, PTL

LEMMA ForgottenInit == Init => ForgottenWhenArchived
BY DEF Init, StreamInit, ForgottenWhenArchived

LEMMA ForgottenNext == IInv /\ ForgottenWhenArchived /\ [Next]_vars => ForgottenWhenArchived'
<1> SUFFICES ASSUME IInv, ForgottenWhenArchived, [Next]_vars,
                    NEW h \in Hours, loc'[h] = "processed", offset'[h] > 0
             PROVE  kills' > 0 \/ (pc' = "forget" /\ cur' = h)
  BY DEF ForgottenWhenArchived
<1> USE DEF processorVars, durableVars, faultVars, loopVars, ForgottenWhenArchived
<1>0. /\ kills \in Nat /\ offset \in [Hours -> Nat] /\ cur \in Hours
      /\ loc \in [Hours -> Places]
  BY ProcessorAssumption DEF ProcessorAssumption, IInv, TypeOK, StreamTypeOK, ProcessorTypeOK
<1>1. CASE StreamNext /\ UNCHANGED processorVars
  <2>1. loc[h] = "processed"
    BY <1>1, StreamStepGrows DEF FilesGrow, IInv, TypeOK
  <2> QED
    BY <1>1, <2>1
<1>2. CASE ProcessorStep
  <2>1. CASE MoveFile
    BY <1>0, <2>1 DEF MoveFile
  <2>2. CASE SaveOffset
    <3>1. loc[cur] = "stream" /\ h # cur
      BY <2>2 DEF SaveOffset, IInv, ControlInv, Reading, streamVars, fileVars
    <3> QED
      BY <1>0, <2>2, <3>1 DEF SaveOffset, streamVars, fileVars
  <2>3. CASE ForgetOffset
    BY <1>0, <2>3 DEF ForgetOffset, ForgottenOffset, streamVars, fileVars
  <2>4. ASSUME UNCHANGED <<loc, offset, kills>>, pc # "forget"
        PROVE  kills' > 0 \/ (pc' = "forget" /\ cur' = h)
    BY <2>4
  <2>5. CASE \/ StartProcessor \/ StartTick \/ KeepFile \/ ArchiveFile \/ FinishFlush
             \/ FlushAtTickEnd \/ SkipFlushAtTickEnd \/ FinalFlush \/ Exit
    BY <2>4, <2>5
    DEF StartProcessor, StartTick, KeepFile, ArchiveFile, FinishFlush, FlushAtTickEnd,
        SkipFlushAtTickEnd, FinalFlush, Exit, streamVars, fileVars
  <2>6. CASE \/ \E g \in Hours : ReadFile(g)
             \/ \E j \in pos + 1 .. eof : ProcessLine(j)
             \/ \E d \in Days : InsertDay(d)
    BY <2>4, <2>6 DEF ReadFile, OpenFile, ProcessLine, InsertDay, streamVars, fileVars
  <2> QED
    BY <1>2, <2>1, <2>2, <2>3, <2>5, <2>6 DEF ProcessorStep
<1>3. CASE Signal
  <2>1. CASE Sigterm
    BY <2>1 DEF Sigterm, streamVars, fileVars
  <2>2. CASE \E g \in Hours : ReadInterrupted(g)
    BY <2>2 DEF ReadInterrupted, OpenFile, streamVars, fileVars
  <2>3. CASE Kill \/ \E d \in Days, some \in SUBSET batch : KillDuringInsert(d, some)
    BY <1>0, <2>3 DEF Kill, KillDuringInsert
  <2> QED
    BY <1>3, <2>1, <2>2, <2>3 DEF Signal
<1>4. CASE UNCHANGED vars
  BY <1>4 DEF vars, streamVars, fileVars
<1> QED
  BY <1>1, <1>2, <1>3, <1>4 DEF Next

\* As long as no kill came, a file in .processed has no saved offset, except between
\* archive_processed and the save that follows offsets.forget.
THEOREM ArchivedIsForgotten == Spec => []ForgottenWhenArchived
<1>1. Init => IInv /\ ForgottenWhenArchived
  BY InvInit, ForgottenInit
<1>2. (IInv /\ ForgottenWhenArchived) /\ [Next]_vars => (IInv /\ ForgottenWhenArchived)'
  BY InvNext, ForgottenNext
<1> QED
  BY <1>1, <1>2, PTL DEF Spec

-----------------------------------------------------------------------------
(* Losses *)

LEMMA LossesByStream ==
    IInv /\ StreamNext /\ UNCHANGED processorVars =>
        \A p \in WholeRecords : AccountedFor(p) => AccountedFor(p)'
<1> SUFFICES ASSUME IInv, StreamNext, UNCHANGED processorVars, NEW p \in WholeRecords
             PROVE  AccountedFor(p) => AccountedFor(p)'
  OBVIOUS
<1>1. loc[p[1]] = "stream" => loc'[p[1]] = "stream"
  BY StreamStepGrows DEF FilesGrow, IInv, TypeOK, WholeRecords, OnDisk
<1> QED
  BY <1>1 DEF AccountedFor, Unread, Stored, Copies, processorVars, durableVars, faultVars, loopVars

LEMMA LossesByProcessor ==
    IInv /\ ProcessorStep =>
        \A p \in WholeRecords :
            \/ AccountedFor(p) => AccountedFor(p)'
            \/ pc = "move" /\ loc'[p[1]] = "processed" /\ Unread(p)
<1> SUFFICES ASSUME IInv, ProcessorStep, NEW p \in WholeRecords, AccountedFor(p)
             PROVE  \/ AccountedFor(p)'
                    \/ pc = "move" /\ loc'[p[1]] = "processed" /\ Unread(p)
  OBVIOUS
<1> USE DEF streamVars, fileVars, durableVars, faultVars
<1>0. /\ p[1] \in Hours /\ p[2] \in Nat /\ cur \in Hours /\ pos \in Nat
      /\ offset \in [Hours -> Nat] /\ loc \in [Hours -> Places]
  BY DEF WholeRecords, OnDisk, IInv, TypeOK, StreamTypeOK, ProcessorTypeOK
<1>1. ASSUME UNCHANGED <<loc, offset, rows>>, batch \subseteq batch' PROVE AccountedFor(p)'
  BY <1>1 DEF AccountedFor, Unread, Stored, Copies
<1>2. CASE \/ StartProcessor \/ StartTick \/ KeepFile \/ ArchiveFile
           \/ FlushAtTickEnd \/ SkipFlushAtTickEnd \/ FinalFlush \/ Exit
  BY <1>1, <1>2 DEF StartProcessor, StartTick, KeepFile, ArchiveFile,
     FlushAtTickEnd, SkipFlushAtTickEnd, FinalFlush, Exit, ProcessEnds
<1>3. CASE \/ \E h \in Hours : ReadFile(h)
           \/ \E j \in pos + 1 .. eof : ProcessLine(j)
  BY <1>1, <1>3 DEF ReadFile, OpenFile, ProcessLine
<1>4. CASE SaveOffset
  <2>1. Reading /\ pos = eof /\ UNCHANGED <<loc, rows, batch>>
    BY <1>4 DEF SaveOffset, Reading
  <2>2. CASE p[1] = cur /\ offset[cur] < p[2] /\ p[2] <= pos
    <3>1. p \in batch \/ Stored(p)
      BY <2>1, <2>2 DEF IInv, ReadInv
    <3> QED
      BY <2>1, <3>1 DEF AccountedFor, Stored, Copies
  <2>3. CASE ~(p[1] = cur /\ offset[cur] < p[2] /\ p[2] <= pos)
    <3>1. p[2] > offset[p[1]] => p[2] > offset'[p[1]]
      BY <1>0, <1>4, <2>1, <2>3 DEF SaveOffset, SavedOffset
    <3> QED
      BY <2>1, <3>1 DEF AccountedFor, Unread, Stored, Copies
  <2> QED
    BY <2>2, <2>3
<1>5. CASE MoveFile
  <2>1. UNCHANGED <<offset, rows, batch>> /\ pc = "move"
    BY <1>5 DEF MoveFile
  <2>2. loc[p[1]] = "stream" => loc'[p[1]] \in {"stream", "processed"}
    BY <1>0, <1>5 DEF MoveFile
  <2> QED
    BY <2>1, <2>2 DEF AccountedFor, Unread, Stored, Copies
<1>6. CASE ForgetOffset
  <2>1. loc[cur] = "processed"
    BY <1>6 DEF ForgetOffset, IInv, ControlInv
  <2>2. Unread(p) => Unread(p)'
    BY <1>0, <1>6, <2>1 DEF ForgetOffset, Unread
  <2> QED
    BY <1>6, <2>2 DEF ForgetOffset, AccountedFor, Stored, Copies
<1>7. CASE \E d \in Days : InsertDay(d)
  <2>1. UNCHANGED <<loc, offset, batch>> /\ \E S \in SUBSET batch : rows' = rows (+) SetToBag(S)
    BY <1>7 DEF InsertDay
  <2>2. Stored(p) => Stored(p)'
    BY <2>1, StoredKept DEF IInv, TypeOK
  <2> QED
    BY <2>1, <2>2 DEF AccountedFor, Unread
<1>8. CASE FinishFlush
  <2>1. UNCHANGED <<loc, offset, rows>> /\ DaysOf(batch) \subseteq flushed
    BY <1>8 DEF FinishFlush
  <2>2. p \in batch => Stored(p)
    BY <2>1 DEF DaysOf, IInv, ReadInv
  <2> QED
    BY <2>1, <2>2 DEF AccountedFor, Unread, Stored, Copies
<1> QED
  BY <1>2, <1>3, <1>4, <1>5, <1>6, <1>7, <1>8 DEF ProcessorStep

LEMMA LossesBySignal ==
    IInv /\ Signal =>
        \A p \in WholeRecords :
            \/ AccountedFor(p) => AccountedFor(p)'
            \/ kills' = kills + 1 /\ p \in AtRisk
<1> SUFFICES ASSUME IInv, Signal, NEW p \in WholeRecords, AccountedFor(p)
             PROVE  AccountedFor(p)' \/ (kills' = kills + 1 /\ p \in AtRisk)
  OBVIOUS
<1> USE DEF streamVars, fileVars, durableVars
<1>1. CASE Sigterm \/ \E h \in Hours : ReadInterrupted(h)
  BY <1>1 DEF Sigterm, ReadInterrupted, OpenFile, AccountedFor, Unread, Stored, Copies
<1>2. CASE Kill \/ \E d \in Days, some \in SUBSET batch : KillDuringInsert(d, some)
  <2>1. UNCHANGED <<loc, offset>> /\ kills' = kills + 1
    BY <1>2 DEF Kill, KillDuringInsert
  <2>2. UNCHANGED rows \/ \E S \in SUBSET batch : rows' = rows (+) SetToBag(S)
    BY <1>2 DEF Kill, KillDuringInsert
  <2>3. Stored(p) => Stored(p)'
    BY <2>2, StoredKept DEF IInv, TypeOK
  <2>4. p \in batch => p \in AtRisk \/ Unread(p)
    <3>1. offset \in [Hours -> Nat] /\ p[1] \in Hours /\ p[2] \in Nat
      BY DEF WholeRecords, OnDisk, IInv, TypeOK, ProcessorTypeOK
    <3> QED
      BY <3>1 DEF AtRisk, Unread, IInv, BatchInv
  <2> QED
    BY <2>1, <2>3, <2>4 DEF AccountedFor, Unread
<1> QED
  BY <1>1, <1>2 DEF Signal

\* A whole record on disk is lost track of only by a kill that finds it in the batch
\* with the saved offset past it, or by archive_processed when the record reached the
\* file after _maybe_archive took its size.
THEOREM LossesAreExplained == Spec => LossesExplained
<1>1. IInv /\ [Next]_vars => [LossStep]_vars
  <2> SUFFICES ASSUME IInv, Next PROVE LossStep
    OBVIOUS
  <2>1. CASE StreamNext /\ UNCHANGED processorVars
    BY <2>1, LossesByStream DEF LossStep
  <2>2. CASE ProcessorStep
    BY <2>2, LossesByProcessor DEF LossStep
  <2>3. CASE Signal
    BY <2>3, LossesBySignal DEF LossStep
  <2> QED
    BY <2>1, <2>2, <2>3 DEF Next
<1> QED
  BY <1>1, InvariantHolds, PTL DEF Spec, LossesExplained

-----------------------------------------------------------------------------
(* Ingest implements LogDelivery *)

LEMMA PlusNothing ==
    ASSUME NEW B, IsABag(B) PROVE B (+) SetToBag({}) = B
BY DEF IsABag, SetToBag, (+)

\* The bag operators of the instance are those of Bags.
LEMMA DeliveryBags ==
    /\ Delivery!EmptyBag = EmptyBag
    /\ \A S : Delivery!SetToBag(S) = SetToBag(S)
    /\ \A B, C : Delivery!(+)(B, C) = B (+) C
    /\ \A p : Delivery!Copies(p) = Copies(p)
BY DEF Delivery!EmptyBag, EmptyBag, Delivery!SetToBag, SetToBag, Delivery!(+), (+),
       Delivery!Copies, Copies, Delivery!BagIn, BagIn, Delivery!BagToSet, BagToSet

LEMMA DeliveryInit == Init => Delivery!Init
BY DeliveryBags DEF Init, StreamInit, ProcessorInit, Delivery!Init, OnDisk

LEMMA DeliveryStep == IInv /\ IInv' /\ [Next]_vars => [Delivery!Next]_(Delivery!vars)
<1> SUFFICES ASSUME IInv, IInv', [Next]_vars
             PROVE  Delivery!Next \/ UNCHANGED <<OnDisk, rows, kills>>
  BY DEF Delivery!vars
<1> USE DEF streamVars, fileVars, durableVars, faultVars
<1>0. \A p : Delivery!Copies(p) = Copies(p)
  BY DeliveryBags
<1>1. CASE StreamNext /\ UNCHANGED processorVars
  <2>1. OnDisk \subseteq OnDisk'
    BY <1>1, StreamStepGrows, OnDiskGrows DEF IInv, TypeOK
  <2> QED
    BY <1>1, <2>1 DEF Delivery!Next, Delivery!Publish, processorVars
<1>2. ASSUME UNCHANGED content PROVE OnDisk' = OnDisk
  BY <1>2 DEF OnDisk
<1>3. ASSUME NEW S \in SUBSET batch, \A p \in S : DayOf(p) \notin flushed
      PROVE  S \in SUBSET OnDisk /\ Delivery!Fresh(S)
  BY <1>0, <1>3 DEF IInv, BatchInv, RowsInv, Delivery!Fresh
<1>4. ASSUME NEW d \in Days, InsertDay(d) PROVE Delivery!Next
  <2> DEFINE S == {p \in batch : DayOf(p) = d}
  <2>1. S \in SUBSET batch /\ (\A p \in S : DayOf(p) \notin flushed)
        /\ rows' = rows (+) SetToBag(S) /\ UNCHANGED <<content, kills>>
    BY <1>4 DEF InsertDay
  <2>2. S \in SUBSET OnDisk /\ Delivery!Fresh(S)
    BY <2>1, <1>3
  <2> QED
    BY <1>2, <2>1, <2>2, DeliveryBags DEF Delivery!Next, Delivery!Insert
<1>5. CASE Kill
  <2>1. UNCHANGED <<content, rows>> /\ kills' = kills + 1
    BY <1>5 DEF Kill
  <2>2. rows' = rows (+) SetToBag({})
    BY <2>1, PlusNothing DEF IInv, TypeOK, ProcessorTypeOK
  <2>3. {} \in SUBSET OnDisk /\ Delivery!Fresh({})
    BY <1>3
  <2> QED
    BY <1>2, <2>1, <2>2, <2>3, DeliveryBags DEF Delivery!Next, Delivery!KilledInInsert
<1>6. ASSUME NEW d \in Days, NEW some \in SUBSET batch, KillDuringInsert(d, some)
      PROVE  Delivery!Next
  <2>1. /\ \A p \in some : DayOf(p) \notin flushed
        /\ rows' = rows (+) SetToBag(some) /\ kills' = kills + 1 /\ UNCHANGED content
    BY <1>6 DEF KillDuringInsert
  <2>2. some \in SUBSET OnDisk /\ Delivery!Fresh(some)
    BY <2>1, <1>3
  <2> QED
    BY <1>2, <2>1, <2>2, DeliveryBags DEF Delivery!Next, Delivery!KilledInInsert
<1>7. CASE Sigterm \/ \E h \in Hours : ReadInterrupted(h)
  BY <1>2, <1>7 DEF Sigterm, ReadInterrupted, OpenFile
<1>8. CASE \/ StartProcessor \/ StartTick \/ KeepFile \/ ArchiveFile \/ MoveFile \/ ForgetOffset
           \/ SaveOffset \/ FinishFlush \/ FlushAtTickEnd \/ SkipFlushAtTickEnd \/ FinalFlush
           \/ Exit
  BY <1>2, <1>8
  DEF StartProcessor, StartTick, KeepFile, ArchiveFile, MoveFile, ForgetOffset, SaveOffset,
      FinishFlush, FlushAtTickEnd, SkipFlushAtTickEnd, FinalFlush, Exit
<1>9. CASE \/ \E h \in Hours : ReadFile(h)
           \/ \E j \in pos + 1 .. eof : ProcessLine(j)
  BY <1>2, <1>9 DEF ReadFile, OpenFile, ProcessLine
<1>10. CASE UNCHANGED vars
  BY <1>2, <1>10 DEF vars, processorVars
<1> QED
  BY <1>1, <1>4, <1>5, <1>6, <1>7, <1>8, <1>9, <1>10 DEF Next, ProcessorStep, Signal

\* The pipeline implements LogDelivery: rows stand for lines on disk, and no life of the
\* processor inserts a record twice, restarts by SIGTERM included.
THEOREM DeliveryIsImplemented == Spec => DeliverySpec
<1>1. Spec => []IInv
  BY InvariantHolds
<1> QED
  BY <1>1, DeliveryInit, DeliveryStep, PTL DEF Spec, DeliverySpec, Delivery!Spec

\* What LogDelivery says of the tables: a record is there at most once more than there
\* were kills, so with none the tables hold no duplicate, and every row stands for a line
\* on disk.
THEOREM NoDuplicates == Spec => [](Delivery!AtMostOncePerLife /\ Delivery!RowsArePublished)
<1>1. IInv => Delivery!AtMostOncePerLife /\ Delivery!RowsArePublished
  BY DeliveryBags
  DEF IInv, RowsInv, Delivery!AtMostOncePerLife, Delivery!RowsArePublished,
      Delivery!BagToSet, BagToSet
<1> QED
  BY <1>1, InvariantHolds, PTL
=============================================================================
