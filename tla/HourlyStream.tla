---------------------------- MODULE HourlyStream ----------------------------
(***************************************************************************)
(* The receivers of megalog/ingest/receiver.py and the hourly .raw files   *)
(* of megalog/ingest/stream.py.                                            *)
(*                                                                         *)
(* Every receiver process (SO_REUSEPORT allows several) owns one           *)
(* HourlyStreamWriter: an append-only file opened in Python's buffered     *)
(* mode, one file for each clock hour.  A line is first held in the        *)
(* writer's memory; it reaches the file when flush_every lines have been   *)
(* written, when the 64 KB buffer has no room, when a line of another hour *)
(* arrives (rollover) or when the receiver is told to stop.                *)
(*                                                                         *)
(* A file is named by its hour and stands for one inode: loc says which    *)
(* directory holds it, and an open writer goes on appending to it wherever *)
(* the processor has moved it.  Lines are kept as what the parser will     *)
(* make of them, never as text:                                            *)
(*   a member of Days  a whole NAT record with a timestamp of that day     *)
(*   Cut, Rest         a NAT record of day CutDay that the router split    *)
(*                     inside IP:PORT, and the datagram with its rest      *)
(*   Noise             a line that is not a NAT record                     *)
(* An empty datagram changes nothing and is left out.                      *)
(***************************************************************************)
EXTENDS Integers, Sequences, FiniteSets

CONSTANTS
    Receivers,      \* the receiver processes
    MaxHour,        \* bound: the clock runs over 0 .. MaxHour
    MaxLines,       \* bound: datagrams received in a behaviour
    MaxOutages,     \* bound: receiver stops and kills in a behaviour
    FlushEvery,     \* stream_flush_every_n_packets
    Days,           \* days that NAT records are stamped with
    Cut, Rest, Noise,
    CutDay,         \* the day of the records that arrive in two pieces
    Sent            \* the lines the routers send in this instance

Hours == 0 .. MaxHour
NoHour == -1                            \* _fp and _current_hour are None
Lines == Days \cup {Cut, Rest, Noise}
Places == {"absent", "stream", "processed", "deleted"}

ASSUME StreamAssumption ==
    /\ MaxHour \in Nat /\ MaxLines \in Nat /\ MaxOutages \in Nat
    /\ FlushEvery \in Nat \ {0}
    /\ {Cut, Rest, Noise} \cap Days = {}
    /\ Cut # Rest /\ Cut # Noise /\ Rest # Noise
    /\ CutDay \in Days
    /\ Sent \subseteq Lines

VARIABLES
    hour,           \* the clock, in hours
    content,        \* content[h]: the lines on disk in the file of hour h
    loc,            \* loc[h]: where that file is
    mtime,          \* mtime[h]: the hour of its last modification
    up,             \* up[r]: receiver r runs
    openHour,       \* _current_hour of r's writer, NoHour when none is open
    buf,            \* lines in r's Python buffer, not yet in the file
    writes,         \* _writes_since_flush of r's writer
    received,       \* number of datagrams received so far
    outages         \* number of receiver stops and kills so far

fileVars == <<content, loc, mtime>>
receiverVars == <<up, openHour, buf, writes, received, outages>>
streamVars == <<hour, fileVars, receiverVars>>

StreamTypeOK ==
    /\ hour \in Hours
    /\ content \in [Hours -> Seq(Lines)]
    /\ loc \in [Hours -> Places]
    /\ mtime \in [Hours -> Hours]
    /\ up \in [Receivers -> BOOLEAN]
    /\ openHour \in [Receivers -> Hours \cup {NoHour}]
    /\ buf \in [Receivers -> Seq(Lines)]
    /\ writes \in [Receivers -> Nat]
    /\ received \in 0 .. MaxLines
    /\ outages \in 0 .. MaxOutages

StreamInit ==
    /\ hour = 0
    /\ content = [h \in Hours |-> << >>]
    /\ loc = [h \in Hours |-> "absent"]
    /\ mtime = [h \in Hours |-> 0]
    /\ up = [r \in Receivers |-> TRUE]
    /\ openHour = [r \in Receivers |-> NoHour]
    /\ buf = [r \in Receivers |-> << >>]
    /\ writes = [r \in Receivers |-> 0]
    /\ received = 0
    /\ outages = 0

-----------------------------------------------------------------------------
(* HourlyStreamWriter *)

\* What is in r's buffer, and how many writes it has counted, once
\* _rollover_if_needed has run: a rollover starts afresh.
Held(r) == IF openHour[r] = hour THEN buf[r] ELSE << >>
Counted(r) == IF openHour[r] = hour THEN writes[r] ELSE 0

FlushDue(n) == n >= FlushEvery

\* Append `more` to the file of the current hour, after the rollover, if one is
\* due, has flushed r's buffer to the file of the hour it was opened in.
AppendToFiles(r, more) ==
    LET rolled(h) == IF h = openHour[r] /\ h # hour THEN buf[r] ELSE << >>
        added(h)  == IF h = hour THEN rolled(h) \o more ELSE rolled(h)
    IN  /\ content' = [h \in Hours |-> content[h] \o added(h)]
        /\ mtime' = [h \in Hours |-> IF added(h) # << >> THEN hour ELSE mtime[h]]

\* Opening for append creates the file of the hour in stream_dir.
OpenCurrentHour(r) ==
    /\ openHour' = [openHour EXCEPT ![r] = hour]
    /\ loc' = IF openHour[r] = hour THEN loc ELSE [loc EXCEPT ![hour] = "stream"]

\* datagram_received of a line that brings the count to flush_every: the buffer,
\* this line included, goes to the file.
ReceiveAndFlush(r, line) ==
    /\ up[r] /\ received < MaxLines
    /\ FlushDue(Counted(r) + 1)
    /\ AppendToFiles(r, Append(Held(r), line))
    /\ OpenCurrentHour(r)
    /\ buf' = [buf EXCEPT ![r] = << >>]
    /\ writes' = [writes EXCEPT ![r] = 0]
    /\ received' = received + 1
    /\ UNCHANGED <<hour, up, outages>>

\* datagram_received of a line that stays in the buffer.  When the 64 KB buffer
\* has no room for it (spill), Python writes out what it held before.
ReceiveAndHold(r, line, spill) ==
    /\ up[r] /\ received < MaxLines
    /\ ~FlushDue(Counted(r) + 1)
    /\ AppendToFiles(r, IF spill THEN Held(r) ELSE << >>)
    /\ OpenCurrentHour(r)
    /\ buf' = [buf EXCEPT ![r] = IF spill THEN <<line>> ELSE Append(Held(r), line)]
    /\ writes' = [writes EXCEPT ![r] = Counted(r) + 1]
    /\ received' = received + 1
    /\ UNCHANGED <<hour, up, outages>>

-----------------------------------------------------------------------------
(* The receiver process *)

ForgetWriter(r) ==
    /\ up' = [up EXCEPT ![r] = FALSE]
    /\ openHour' = [openHour EXCEPT ![r] = NoHour]
    /\ buf' = [buf EXCEPT ![r] = << >>]
    /\ writes' = [writes EXCEPT ![r] = 0]
    /\ outages' = outages + 1
    /\ UNCHANGED <<hour, loc, received>>

\* SIGTERM: the writer is closed, which flushes it to the file it has open.
StopReceiver(r) ==
    /\ up[r] /\ outages < MaxOutages
    /\ content' = [h \in Hours |->
                     IF h = openHour[r] THEN content[h] \o buf[r] ELSE content[h]]
    /\ mtime' = [h \in Hours |->
                   IF h = openHour[r] /\ buf[r] # << >> THEN hour ELSE mtime[h]]
    /\ ForgetWriter(r)

\* kill -9 or a crash: what the Python buffer held is gone.
KillReceiver(r) ==
    /\ up[r] /\ outages < MaxOutages
    /\ ForgetWriter(r)
    /\ UNCHANGED <<content, mtime>>

\* systemd starts the receiver again (Restart=always).
StartReceiver(r) ==
    /\ ~up[r]
    /\ up' = [up EXCEPT ![r] = TRUE]
    /\ UNCHANGED <<hour, fileVars, openHour, buf, writes, received, outages>>

\* The clock reaches the next hour.
ClockTick ==
    /\ hour < MaxHour
    /\ hour' = hour + 1
    /\ UNCHANGED <<fileVars, receiverVars>>

StreamNext ==
    \/ ClockTick
    \/ \E r \in Receivers :
          \/ StopReceiver(r)
          \/ KillReceiver(r)
          \/ StartReceiver(r)
          \/ \E line \in Sent :
                \/ ReceiveAndFlush(r, line)
                \/ \E spill \in BOOLEAN : ReceiveAndHold(r, line, spill)
=============================================================================
