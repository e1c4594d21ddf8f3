---------------------------------- MODULE Editor ----------------------------------
(***************************************************************************)
(* The editor's window (app/src/main.cpp): one event loop that handles     *)
(* what the user does and the signals of the compiler processes the user   *)
(* has started.  The processes run while the user goes on editing, may     *)
(* overlap, and share the one string fullErr.  Characters are "\n", those  *)
(* inputCheck lets pass, and others.                                       *)
(***************************************************************************)
EXTENDS Naturals, FiniteSets, FiniteSetsExt, SequencesExt

CONSTANTS Texts,     \* what the user can type, and a file can contain
          Accepted,  \* the characters inputCheck lets pass
          Files,     \* the names the file dialogs return
          NoName,    \* no file has been opened or saved
          MaxRuns    \* bound on the processes

ASSUME EditorAssumption ==
    /\ \A t \in Texts : t \in Seq(Range(t))
    /\ << >> \in Texts
    /\ NoName \notin Files
    /\ MaxRuns \in Nat

VARIABLES text,       \* of textEdit
          console,    \* the messages in consoleContainer
          fullErr,    \* the pieces of standard error that were read
          processes,  \* the QProcess objects, in the order of their creation
          ran,        \* history: the last click on Run, its process and program
          alone,      \* history: no other process was running at that click
          files,      \* the contents of the files
          fileName,   \* currentFilename, which the window shows
          firstTime,
          edited,     \* history: the text was changed since it was read or written
          cut         \* history: the files a write to which has failed

runVars == <<console, fullErr, processes, ran, alone>>
fileVars == <<files, fileName, firstTime, edited, cut>>
editorVars == <<text, runVars, fileVars>>

(* No process, or one that has not been started. *)
Refused == [process |-> 0, code |-> << >>, report |-> << >>]

EditorInit ==
    /\ text = << >>
    /\ console = << >>
    /\ fullErr = << >>
    /\ processes = << >>
    /\ ran = Refused
    /\ alone = TRUE
    /\ files \in [Files -> Texts]
    /\ fileName = NoName
    /\ firstTime = TRUE
    /\ edited = FALSE
    /\ cut = {}
-----------------------------------------------------------------------------
(* Positions count from 0, like the lines and the columns here; the window *)
(* adds 1 to both when it prints them.                                     *)
Newlines(code) == {i \in 1..Len(code) : code[i] = "\n"}

getLineStartIndices(code) == {0} \cup (Newlines(code) \ {Len(code)})

(* Mutant: lower_bound for upper_bound. *)
PositionBefore(lineStarts, charIndex) ==
    LET before == {s \in lineStarts : s < charIndex}
    IN  IF before = {} THEN <<0, charIndex>>
        ELSE <<Cardinality(before) - 1, charIndex - Max(before)>>

getTextPosition(lineStarts, charIndex) ==
    LET upTo == {s \in lineStarts : s <= charIndex}
    IN  IF upTo = {} THEN <<0, charIndex>>
        ELSE <<Cardinality(upTo) - 1, charIndex - Max(upTo)>>

Message(kind, at, rest) == [kind |-> kind, at |-> at, rest |-> rest]

Unsupported(code) == {i \in 1..Len(code) : code[i] \notin Accepted}
-----------------------------------------------------------------------------
(* What compiler_app writes to standard error, in the pieces it writes it  *)
(* in: nothing, or one line.  A piece tells which process has written it,  *)
(* which nothing in the window reads but the text of a message shows.      *)
Piece(part, pos, p) == [part |-> part, pos |-> pos, by |-> p]

EndOfLine(p) == <<Piece("message", 0, p), Piece("endl", 0, p)>>
SyntaxReport(pos, p) == <<Piece("SYNTAX_ERROR", 0, p), Piece("pos", pos, p)>> \o EndOfLine(p)
RuntimeReport(p) == <<Piece("RUNTIME_ERROR", 0, p)>> \o EndOfLine(p)

PossibleReports(code, p) ==
    {<< >>, RuntimeReport(p)} \cup {SyntaxReport(pos, p) : pos \in 0..Len(code)}

(* std::getline: the last line need not be ended. *)
EndsOfLines(pieces) ==
    {i \in DOMAIN pieces : pieces[i].part = "endl"}
        \cup {i \in {Len(pieces) + 1} : i > 1 /\ pieces[i - 1].part # "endl"}

LineTo(pieces, end) ==
    SubSeq(pieces, Max({0} \cup {i \in EndsOfLines(pieces) : i < end}) + 1, end - 1)

Lines(pieces) ==
    [k \in 1..Cardinality(EndsOfLines(pieces)) |->
        LineTo(pieces, CHOOSE end \in EndsOfLines(pieces) :
                          Cardinality({i \in EndsOfLines(pieces) : i <= end}) = k)]

(* One turn of the loop: a position that cannot be read is 0, and nothing  *)
(* can be read behind it.                                                  *)
Printed(line, lineStarts) ==
    IF line = << >> \/ Head(line).part # "SYNTAX_ERROR" THEN Message("line", <<0, 0>>, line)
    ELSE IF Len(line) > 1 /\ line[2].part = "pos"
    THEN Message("syntax", getTextPosition(lineStarts, line[2].pos), SubSeq(line, 3, Len(line)))
    ELSE Message("syntax", getTextPosition(lineStarts, 0), << >>)
-----------------------------------------------------------------------------
Running == {p \in DOMAIN processes : processes[p].state = "running"}

(* Mutant: the errors of former runs are kept. *)
KeepErrors == fullErr

ClearedErrors == << >>

(* run, up to an unsupported symbol. *)
RunRefused ==
    /\ Unsupported(text) # {}
    /\ console' = <<Message("symbol",
                        getTextPosition(getLineStartIndices(text), Min(Unsupported(text)) - 1), << >>)>>
    /\ ran' = Refused
    /\ alone' = (Running = {})
    /\ UNCHANGED <<text, fullErr, processes, fileVars>>

(* run to its end.  The process gets the text and what run has captured;   *)
(* start may fail, of which no one is told.                                *)
Run ==
    LET p == Len(processes) + 1
    IN  /\ Unsupported(text) = {} /\ p <= MaxRuns
        /\ console' = << >>
        /\ fullErr' = ClearedErrors
        /\ \E report \in PossibleReports(text, p), state \in {"running", "failed"} :
              /\ state = "failed" => report = << >>
              /\ processes' = Append(processes,
                    [state |-> state, unread |-> report, reports |-> report # << >>,
                     lineStarts |-> getLineStartIndices(text)])
              /\ ran' = [process |-> p, code |-> text, report |-> report]
        /\ alone' = (Running = {})
        /\ UNCHANGED <<text, fileVars>>

(* deleteLater *)
Deleted == [state |-> "finished", unread |-> << >>, reports |-> FALSE, lineStarts |-> {}]

(* Mutant: another channel of the process is read. *)
ReadsNothing(p) == << >>

readAllStandardError(p) == <<Head(processes[p].unread)>>

(* The handler of readyReadStandardError.  A signal for several pieces is  *)
(* as good as several signals.                                             *)
ReadyRead(p) ==
    /\ p \in Running /\ processes[p].unread # << >>
    /\ fullErr' = fullErr \o readAllStandardError(p)
    /\ processes' = [processes EXCEPT ![p].unread = Tail(@)]
    /\ UNCHANGED <<text, console, ran, alone, fileVars>>

(* Mutant: what was printed is removed. *)
NoErrorsLeft == << >>

ErrorsLeft == fullErr

(* The handler of finished, which QProcess emits when all was read.        *)
Finished(p) ==
    /\ p \in Running /\ processes[p].unread = << >>
    /\ LET lines == Lines(fullErr)
       IN  console' = console \o [k \in DOMAIN lines |-> Printed(lines[k], processes[p].lineStarts)]
    /\ fullErr' = ErrorsLeft
    /\ processes' = [processes EXCEPT ![p] = Deleted]
    /\ UNCHANGED <<text, ran, alone, fileVars>>
-----------------------------------------------------------------------------
Edit(new) ==
    /\ new # text
    /\ text' = new
    /\ edited' = TRUE
    /\ UNCHANGED <<runVars, files, fileName, firstTime, cut>>

(* Mutant: an opened file is not the one that is saved from then on.       *)
NameBeforeOpening(f) == fileName

NameOnceOpened(f) == f

(* onOpenButtonClicked; a dialog that is cancelled and a file that cannot  *)
(* be opened change nothing.                                               *)
Open(f) ==
    /\ text' = files[f]
    /\ fileName' = NameOnceOpened(f)
    /\ firstTime' = FALSE
    /\ edited' = FALSE
    /\ UNCHANGED <<runVars, files, cut>>

(* The file is truncated and written; nothing finds out if that fails.     *)
WriteTo(f) ==
    \/ files' = [files EXCEPT ![f] = text] /\ cut' = cut \ {f}
    \/ files' = [files EXCEPT ![f] = << >>] /\ cut' = cut \cup {f}

(* Mutant: the file is written, but the window stays with another. *)
NameBeforeSaving(f) == fileName

NameOnceSaved(f) == f

SaveNew(f) ==
    /\ WriteTo(f)
    /\ fileName' = NameOnceSaved(f)
    /\ firstTime' = FALSE
    /\ edited' = FALSE
    /\ UNCHANGED <<text, runVars>>

SaveExisting ==
    /\ WriteTo(fileName)
    /\ firstTime' = FALSE
    /\ edited' = FALSE
    /\ UNCHANGED <<text, runVars, fileName>>

Save == IF firstTime THEN \E f \in Files : SaveNew(f) ELSE SaveExisting

SaveAs == \E f \in Files : SaveNew(f)

EditorNext ==
    \/ \E new \in Texts : Edit(new)
    \/ \E f \in Files : Open(f)
    \/ Save
    \/ SaveAs
    \/ RunRefused
    \/ Run
    \/ \E p \in DOMAIN processes : ReadyRead(p) \/ Finished(p)

(* The event loop handles every signal.  A process that has reported an    *)
(* error ends; one that has not may run as long as its program does.       *)
EditorFairness ==
    \A p \in 1..MaxRuns :
        WF_editorVars(p \in DOMAIN processes /\ processes[p].reports /\ (ReadyRead(p) \/ Finished(p)))

EditorSpec == EditorInit /\ [][EditorNext]_editorVars /\ EditorFairness
-----------------------------------------------------------------------------
EditorTypeOK ==
    /\ text \in Texts /\ files \in [Files -> Texts]
    /\ fileName \in (IF firstTime THEN {NoName} ELSE Files)
    /\ firstTime \in BOOLEAN /\ edited \in BOOLEAN /\ alone \in BOOLEAN
    /\ cut \subseteq Files
    /\ Len(processes) <= MaxRuns /\ ran.process \in 0..Len(processes)
    /\ \A p \in DOMAIN processes :
          /\ processes[p].state \in {"running", "failed", "finished"}
          /\ processes[p].state # "running" => processes[p].unread = << >>
          /\ \A i \in DOMAIN processes[p].unread : processes[p].unread[i].by = p

(* What the window should say of a report: the line of the program that    *)
(* the position is in, and the column in that line, counted in the text    *)
(* that was run.  The end of a text that ends in a line break is shown     *)
(* behind that break.                                                      *)
ShownAt(code, pos) ==
    LET upTo == {n \in Newlines(code) : n <= pos /\ n # Len(code)}
    IN  <<Cardinality(upTo), pos - (IF upTo = {} THEN 0 ELSE Max(upTo))>>

Shown(code, report) ==
    IF report = << >> THEN << >>
    ELSE IF Head(report).part = "SYNTAX_ERROR"
    THEN <<Message("syntax", ShownAt(code, report[2].pos), <<report[3]>>)>>
    ELSE <<Message("line", <<0, 0>>, Front(report))>>

(* A program that is run while no other runs is reported once, in full,    *)
(* and at the line and the column of the text it was run with, whatever    *)
(* was run before and however the text is edited before the process ends   *)
(* (main.cpp:204-271, 47-72).                                              *)
ReportsTheRun ==
    ran.process # 0 /\ alone /\ Running = {} => console = Shown(ran.code, ran.report)

(* Also when processes overlap, and fullErr mixes what they write, nothing *)
(* of what the process of the last click has written is lost or taken out  *)
(* of order, up to when its report is printed and after (main.cpp:225-232).*)
LatestIsComplete ==
    ran.process # 0 =>
        LET mine == {i \in DOMAIN fullErr : fullErr[i].by = ran.process}
            read == Cardinality(mine)
        IN  /\ read <= Len(ran.report)
            /\ \A i \in mine : fullErr[i] = ran.report[Cardinality({h \in mine : h <= i})]
            /\ processes[ran.process].unread = SubSeq(ran.report, read + 1, Len(ran.report))

(* A text that was not edited since it was opened or saved is in the file  *)
(* the window names, which is the one the next save goes to, unless a      *)
(* write has failed, of which the user is not told (main.cpp:296-383).     *)
ShownFileIsSaved ==
    fileName \in Files \ cut /\ ~edited => files[fileName] = text

(* An error of the process that was started last is shown in the end, or   *)
(* the user runs a text that has none; the bound on the processes excludes *)
(* that the user for ever clicks again before the window can show anything *)
(* (main.cpp:227-262).                                                     *)
ErrorsAreShown == ran.report # << >> ~> ran.report = << >> \/ console # << >>
=============================================================================
