-------------------------------- MODULE Lyrics --------------------------------
(***************************************************************************)
(* The lyric parsers of src/lyric_parser.rs.  A text is a sequence of      *)
(* rows; a row has tags, each a time or an offset in milliseconds, and a   *)
(* text after the last tag (a row without any has brackets that are        *)
(* neither).  parse_lrc and line_at serve the display, to_lrc writes the   *)
(* lines back; parse_timed_lrc and parse_playback_lrc serve the player.    *)
(***************************************************************************)
EXTENDS Integers, Sequences, SequencesExt, FiniteSets

CONSTANTS
    Texts,   \* texts of rows
    Empty,   \* no text
    Rows,    \* rows a text is made of
    Probes,  \* times line_at is asked for
    MaxRows  \* bound: rows of a text

Tag == [kind : {"time", "offset"}, ms : Int]
Row == [tags : Seq(Tag), text : Texts]
Line == [time : Int, text : Texts]

ASSUME LyricsAssumption ==
    /\ Empty \in Texts /\ Rows \subseteq Row
    /\ Probes \subseteq Int /\ MaxRows \in Nat

VARIABLE lrc  \* the rows of the text

-----------------------------------------------------------------------------
\* What a loop of n turns makes of "start".
Loop(n, start, turn) ==
    LET after[i \in 0 .. n] == IF i = 0 THEN start ELSE turn[i][after[i - 1]]
    IN  after[n]

\* The variables of parse_lrc: its lines, the offset that holds, the time of the
\* last line, whether this row had a time, and the offset of the metadata.
Reader == [lines : Seq(Line), offset : Int, last : Int, found : BOOLEAN, meta : SUBSET Int]

\* One tag of a row, with its text: an offset holds from here on, a time
\* makes a line.
ReadTag(acc, tag, text) ==
    IF tag.kind = "offset" THEN [acc EXCEPT !.offset = tag.ms, !.meta = {tag.ms}]
    ELSE IF text = Empty THEN acc
    ELSE [acc EXCEPT !.lines = Append(@, [time |-> tag.ms - acc.offset, text |-> text]),
                     !.last = tag.ms - acc.offset, !.found = TRUE]

\* The tags of a row are read from the last to the first; a row without a
\* time belongs to the time before it.
ReadRow(acc, row) ==
    LET n    == Len(row.tags)
        read == Loop(n, [acc EXCEPT !.found = FALSE],
                     [i \in 1 .. n |-> [a \in Reader |-> ReadTag(a, row.tags[n + 1 - i], row.text)]])
    IN  IF read.found \/ row.text = Empty THEN read
        ELSE [read EXCEPT !.lines = Append(@, [time |-> read.last, text |-> row.text])]

ReadRows(rows) ==
    Loop(Len(rows), [lines |-> <<>>, offset |-> 0, last |-> 0, found |-> FALSE, meta |-> {}],
         [i \in DOMAIN rows |-> [acc \in Reader |-> ReadRow(acc, rows[i])]])

\* line_at: the lines up to the first that is later.
LineAt(lines, ms) ==
    LET shown == SelectInSeq(lines, LAMBDA line : line.time > ms)
    IN  IF shown = 0 THEN Len(lines) ELSE shown - 1

\* Mutant of ByTime: in the order of the text.
AsWritten(lines) == lines

\* sort_by_key is stable: a line goes behind those that are not later.
Insert(lines, line) ==
    LET at == LineAt(lines, line.time)
    IN  SubSeq(lines, 1, at) \o <<line>> \o SubSeq(lines, at + 1, Len(lines))

ByTime(lines) ==
    Loop(Len(lines), <<>>,
         [i \in DOMAIN lines |-> [sorted \in Seq(Line) |-> Insert(sorted, lines[i])]])

\* parse_lrc: the lines by time, and the last offset.
ParseLrc(rows) ==
    LET read == ReadRows(rows)
    IN  [lines |-> ByTime(read.lines), meta |-> read.meta]

\* {:02} of a number, as lrc_time_to_ms reads it: the centiseconds are cut to
\* two characters, the sign is one of them.
Quotient(a, b) == IF a < 0 THEN -((-a) \div b) ELSE a \div b
Remainder(a, b) == a - b * Quotient(a, b)
Rewritten(ms) ==
    LET centis == Quotient(Remainder(ms, 1000), 10)
        cut    == IF centis < -9 THEN Quotient(centis, 10) ELSE centis
    IN  Quotient(ms, 60000) * 60000 + Quotient(Remainder(ms, 60000), 1000) * 1000 + cut * 10

\* to_lrc: the offset, then the lines with their times.
ToLrc(lyric) ==
    [i \in 1 .. Cardinality(lyric.meta) |->
        [tags |-> <<[kind |-> "offset", ms |-> CHOOSE o \in lyric.meta : TRUE]>>, text |-> Empty]]
    \o [i \in DOMAIN lyric.lines |->
        [tags |-> <<[kind |-> "time", ms |-> Rewritten(lyric.lines[i].time)]>>,
         text |-> lyric.lines[i].text]]

-----------------------------------------------------------------------------
\* parse_timed_lrc: every time with the text of its row, offsets are left to
\* lrc_offset.
TimedTag(lines, tag, text) ==
    IF tag.kind = "time" THEN Append(lines, [time |-> tag.ms, text |-> text]) ELSE lines
TimedRow(lines, row) ==
    Loop(Len(row.tags), lines,
         [i \in DOMAIN row.tags |-> [l \in Seq(Line) |-> TimedTag(l, row.tags[i], row.text)]])
ParseTimed(rows) ==
    ByTime(Loop(Len(rows), <<>>,
                [i \in DOMAIN rows |-> [lines \in Seq(Line) |-> TimedRow(lines, rows[i])]]))

\* parse_playback_lrc: a line ends where the next one begins, one without a
\* text ends the line before it and is not shown.  The last line has no end.
PlaybackLines(rows) ==
    LET timed == ParseTimed(rows)
        line(i) == [index |-> i, start |-> timed[i].time,
                    end |-> {timed[j].time : j \in DOMAIN timed \cap {i + 1}}]
    IN  {line(i) : i \in {j \in DOMAIN timed : timed[j].text # Empty}}

\* A playback line is over, for the player, before the next begins.
Ended(line, ms) == \E end \in line.end : ms >= end

-----------------------------------------------------------------------------
LyricsInit == lrc = <<>>
AddRow(row) == Len(lrc) < MaxRows /\ lrc' = Append(lrc, row)
LyricsNext == \E row \in Rows : AddRow(row)
LyricsSpec == LyricsInit /\ [][LyricsNext]_lrc

-----------------------------------------------------------------------------
\* Whatever the order of the rows and tags, several times of one row, offsets
\* in the middle and rows without a time: line_at answers the last of the
\* lines that have begun, and no two lines of the player are shown at once: the
\* earlier of them ends no later than the other begins.
OneLineAtATime ==
    LET shown == ParseLrc(lrc).lines
        played == PlaybackLines(lrc)
    IN  /\ \A ms \in Probes, i \in DOMAIN shown :
              shown[i].time <= ms =>
                  LineAt(shown, ms) >= i /\ shown[LineAt(shown, ms)].time >= shown[i].time
        /\ \A ms \in Probes, l, m \in played :
              l # m /\ l.start <= ms /\ m.start <= ms => Ended(l, ms) \/ Ended(m, ms)

\* to_lrc writes back the text that was parsed ("渲染回 LRC 文本",
\* lyric_parser.rs:48): parsing it again gives the same lines.
WrittenBack ==
    LET lyric == ParseLrc(lrc)
    IN  (\A i \in DOMAIN lyric.lines : lyric.lines[i].time >= 0) =>
            ParseLrc(ToLrc(lyric)).lines = lyric.lines
=============================================================================
