------------------------------ MODULE EditorProofs ------------------------------
(***************************************************************************)
(* Proofs about Editor, for any texts, files and number of processes: what *)
(* the window shows of a run, and which file it shows.                     *)
(***************************************************************************)
EXTENDS Editor, FiniteSetTheorems, SequenceTheorems, WellFoundedInduction, TLAPS

Parts == {"message", "endl", "SYNTAX_ERROR", "pos", "RUNTIME_ERROR"}

Pieces == [part : Parts, pos : Nat, by : Nat]

Processes == [state : {"running", "failed", "finished"}, unread : Seq(Pieces),
              reports : BOOLEAN, lineStarts : SUBSET Nat]

ShapeInv ==
    /\ fullErr \in Seq(Pieces)
    /\ processes \in Seq(Processes)
    /\ ran \in [process : Nat, code : Texts, report : Seq(Pieces)]

FileTypeOK ==
    /\ text \in Texts /\ files \in [Files -> Texts]
    /\ fileName \in (IF firstTime THEN {NoName} ELSE Files)
    /\ firstTime \in BOOLEAN /\ edited \in BOOLEAN
    /\ cut \subseteq Files

RunTypeOK ==
    /\ alone \in BOOLEAN
    /\ Len(processes) <= MaxRuns /\ ran.process \in 0..Len(processes)
    /\ \A p \in DOMAIN processes :
          /\ processes[p].state \in {"running", "failed", "finished"}
          /\ processes[p].state # "running" => processes[p].unread = << >>
          /\ \A i \in DOMAIN processes[p].unread : processes[p].unread[i].by = p

(* The program that was run last: its process keeps its lines, and, where  *)
(* no other runs, what was read and what was not is its report.            *)
RunInv ==
    ran.process # 0 =>
        /\ ran.report \in PossibleReports(ran.code, ran.process)
        /\ processes[ran.process].state = "running" =>
              processes[ran.process].lineStarts = getLineStartIndices(ran.code)
        /\ alone =>
              /\ Running \subseteq {ran.process}
              /\ fullErr \o processes[ran.process].unread = ran.report
              /\ console = IF processes[ran.process].state = "running" THEN << >>
                           ELSE Shown(ran.code, ran.report)

EditorInv ==
    FileTypeOK /\ RunTypeOK /\ ShapeInv /\ ShownFileIsSaved /\ LatestIsComplete /\ RunInv
-----------------------------------------------------------------------------
LEMMA Texted == ASSUME NEW code \in Texts PROVE Len(code) \in Nat /\ DOMAIN code = 1..Len(code)
<1>1. code \in Seq(Range(code))
  BY EditorAssumption
<1> QED
  BY <1>1

LEMMA LinesStart == ASSUME NEW code \in Texts PROVE getLineStartIndices(code) \subseteq Nat
  BY Texted DEF getLineStartIndices, Newlines

LEMMA JoinedPair == ASSUME NEW a, NEW c, NEW d PROVE <<a>> \o <<c, d>> = <<a, c, d>>
<1> DEFINE s == <<a>>
           t == <<c, d>>
           u == <<a, c, d>>
<1>1. /\ s \in Seq({a, c, d}) /\ Len(s) = 1 /\ s[1] = a
      /\ t \in Seq({a, c, d}) /\ Len(t) = 2 /\ t[1] = c /\ t[2] = d
      /\ u \in Seq({a, c, d}) /\ Len(u) = 3 /\ u[1] = a /\ u[2] = c /\ u[3] = d
  OBVIOUS
<1> HIDE DEF s, t, u
<1> DEFINE S == {a, c, d}
<1> HIDE DEF S
<1>0. /\ s \o t \in Seq(S) /\ Len(s \o t) = Len(s) + Len(t)
      /\ \A i \in 1 .. Len(s) + Len(t) : (s \o t)[i] = IF i <= Len(s) THEN s[i] ELSE t[i - Len(s)]
  <2>1. s \in Seq(S) /\ t \in Seq(S)
    BY <1>1 DEF S
  <2> QED
    BY <2>1, ConcatProperties
<1>2. /\ s \o t \in Seq(S) /\ Len(s \o t) = 3
      /\ (s \o t)[1] = a /\ (s \o t)[2] = c /\ (s \o t)[3] = d
  BY <1>0, <1>1
<1>3. s \o t = u
  BY <1>1, <1>2, SeqEqual DEF S
<1> QED
  BY <1>3 DEF s, t, u

LEMMA JoinedPairs == ASSUME NEW a, NEW b, NEW c, NEW d PROVE <<a, b>> \o <<c, d>> = <<a, b, c, d>>
<1> DEFINE s == <<a, b>>
           t == <<c, d>>
           u == <<a, b, c, d>>
<1>1. /\ s \in Seq({a, b, c, d}) /\ Len(s) = 2 /\ s[1] = a /\ s[2] = b
      /\ t \in Seq({a, b, c, d}) /\ Len(t) = 2 /\ t[1] = c /\ t[2] = d
      /\ u \in Seq({a, b, c, d}) /\ Len(u) = 4
      /\ u[1] = a /\ u[2] = b /\ u[3] = c /\ u[4] = d
  OBVIOUS
<1> HIDE DEF s, t, u
<1> DEFINE S == {a, b, c, d}
<1> HIDE DEF S
<1>0. /\ s \o t \in Seq(S) /\ Len(s \o t) = Len(s) + Len(t)
      /\ \A i \in 1 .. Len(s) + Len(t) : (s \o t)[i] = IF i <= Len(s) THEN s[i] ELSE t[i - Len(s)]
  <2>1. s \in Seq(S) /\ t \in Seq(S)
    BY <1>1 DEF S
  <2> QED
    BY <2>1, ConcatProperties
<1>2. /\ s \o t \in Seq(S) /\ Len(s \o t) = 4
      /\ (s \o t)[1] = a /\ (s \o t)[2] = b /\ (s \o t)[3] = c /\ (s \o t)[4] = d
  BY <1>0, <1>1
<1>3. s \o t = u
  BY <1>1, <1>2, SeqEqual DEF S
<1> QED
  BY <1>3 DEF s, t, u

(* The pieces of each kind of report. *)
LEMMA RuntimePieces ==
    ASSUME NEW p \in Nat
    PROVE  RuntimeReport(p) = <<Piece("RUNTIME_ERROR", 0, p), Piece("message", 0, p),
                                Piece("endl", 0, p)>>
  BY JoinedPair DEF RuntimeReport, EndOfLine

LEMMA SyntaxPieces ==
    ASSUME NEW pos \in Nat, NEW p \in Nat
    PROVE  SyntaxReport(pos, p) = <<Piece("SYNTAX_ERROR", 0, p), Piece("pos", pos, p),
                                    Piece("message", 0, p), Piece("endl", 0, p)>>
  BY JoinedPairs DEF SyntaxReport, EndOfLine

LEMMA ReportPieces ==
    ASSUME NEW code \in Texts, NEW p \in Nat, NEW report \in PossibleReports(code, p)
    PROVE  report \in Seq(Pieces) /\ \A i \in DOMAIN report : report[i].by = p
<1>1. \A part \in Parts, pos \in Nat : Piece(part, pos, p) \in Pieces /\ Piece(part, pos, p).by = p
  BY DEF Piece, Pieces
<1>2. CASE report = << >>
  BY <1>2
<1>3. CASE report = RuntimeReport(p)
  <2> DEFINE a == Piece("RUNTIME_ERROR", 0, p)
             b == Piece("message", 0, p)
             c == Piece("endl", 0, p)
  <2>1. a \in Pieces /\ b \in Pieces /\ c \in Pieces /\ a.by = p /\ b.by = p /\ c.by = p
    BY <1>1 DEF Parts
  <2>2. report = <<a, b, c>>
    BY <1>3, RuntimePieces
  <2> HIDE DEF a, b, c
  <2> QED
    BY <2>1, <2>2
<1>4. ASSUME NEW pos \in 0..Len(code), report = SyntaxReport(pos, p)
      PROVE  report \in Seq(Pieces) /\ \A i \in DOMAIN report : report[i].by = p
  <2> DEFINE a == Piece("SYNTAX_ERROR", 0, p)
             d == Piece("pos", pos, p)
             b == Piece("message", 0, p)
             c == Piece("endl", 0, p)
  <2>0. pos \in Nat
    BY Texted
  <2>1. /\ a \in Pieces /\ b \in Pieces /\ c \in Pieces /\ d \in Pieces
        /\ a.by = p /\ b.by = p /\ c.by = p /\ d.by = p
    BY <1>1, <2>0 DEF Parts
  <2>2. report = <<a, d, b, c>>
    BY <1>4, <2>0, SyntaxPieces
  <2> HIDE DEF a, b, c, d
  <2> QED
    BY <2>1, <2>2
<1> QED
  BY <1>2, <1>3, <1>4 DEF PossibleReports
-----------------------------------------------------------------------------
LEMMA EditorStarts == EditorInit => EditorInv
<1> SUFFICES ASSUME EditorInit PROVE EditorInv
  OBVIOUS
<1>1. /\ ran.process = 0 /\ processes = << >> /\ fullErr = << >> /\ fileName = NoName
      /\ fileName \notin Files
  BY EditorAssumption DEF EditorInit, Refused
<1>2. FileTypeOK
  BY <1>1, EditorAssumption DEF EditorInit, FileTypeOK
<1>3. RunTypeOK
  BY <1>1, EditorAssumption DEF EditorInit, RunTypeOK
<1>4. ShapeInv
  BY <1>1, EditorAssumption DEF EditorInit, ShapeInv, Refused
<1> QED
  BY <1>1, <1>2, <1>3, <1>4 DEF EditorInv, ShownFileIsSaved, LatestIsComplete, RunInv

(* What the user does to text and files leaves the processes alone.        *)
LEMMA RunsUnchanged ==
    ASSUME EditorInv, UNCHANGED runVars
    PROVE  RunTypeOK' /\ ShapeInv' /\ LatestIsComplete' /\ RunInv'
<1>1. /\ console' = console /\ fullErr' = fullErr /\ processes' = processes
      /\ ran' = ran /\ alone' = alone
  BY DEF runVars
<1>2. RunTypeOK'
  BY <1>1 DEF EditorInv, RunTypeOK
<1>3. ShapeInv'
  BY <1>1 DEF EditorInv, ShapeInv
<1>4. LatestIsComplete'
  BY <1>1 DEF EditorInv, LatestIsComplete
<1>5. Running' = Running
  BY <1>1 DEF Running
<1>6. RunInv'
  BY <1>1, <1>5 DEF EditorInv, RunInv
<1> QED
  BY <1>2, <1>3, <1>4, <1>6

LEMMA FilesUnchanged ==
    ASSUME EditorInv, UNCHANGED <<text, fileVars>>
    PROVE  FileTypeOK' /\ ShownFileIsSaved'
  BY DEF EditorInv, FileTypeOK, ShownFileIsSaved, fileVars

LEMMA EditStep == ASSUME EditorInv, NEW new \in Texts, Edit(new) PROVE EditorInv'
<1>1. FileTypeOK' /\ ShownFileIsSaved'
  BY DEF EditorInv, Edit, FileTypeOK, ShownFileIsSaved
<1> QED
  BY <1>1, RunsUnchanged DEF Edit, EditorInv

LEMMA OpenStep == ASSUME EditorInv, NEW f \in Files, Open(f) PROVE EditorInv'
<1>1. FileTypeOK' /\ ShownFileIsSaved'
  BY DEF EditorInv, Open, NameOnceOpened, FileTypeOK, ShownFileIsSaved
<1> QED
  BY <1>1, RunsUnchanged DEF Open, EditorInv

(* The text is in the file that was written, or the file is among those a  *)
(* write to which has failed.                                              *)
LEMMA Written ==
    ASSUME EditorInv, NEW f \in Files, WriteTo(f)
    PROVE  files' \in [Files -> Texts] /\ cut' \subseteq Files /\ (f \notin cut' => files'[f] = text)
<1>1. << >> \in Texts
  BY EditorAssumption
<1> QED
  BY <1>1 DEF EditorInv, FileTypeOK, WriteTo

LEMMA SaveNewStep == ASSUME EditorInv, NEW f \in Files, SaveNew(f) PROVE EditorInv'
<1>1. files' \in [Files -> Texts] /\ cut' \subseteq Files /\ (f \notin cut' => files'[f] = text)
  BY Written DEF SaveNew
<1>2. /\ fileName' = f /\ firstTime' = FALSE /\ edited' = FALSE /\ text' = text
      /\ UNCHANGED runVars
  BY DEF SaveNew, NameOnceSaved
<1>3. FileTypeOK' /\ ShownFileIsSaved'
  BY <1>1, <1>2 DEF EditorInv, FileTypeOK, ShownFileIsSaved
<1> QED
  BY <1>2, <1>3, RunsUnchanged DEF EditorInv

LEMMA SaveExistingStep == ASSUME EditorInv, ~firstTime, SaveExisting PROVE EditorInv'
<1>0. fileName \in Files
  BY DEF EditorInv, FileTypeOK
<1>1. /\ files' \in [Files -> Texts] /\ cut' \subseteq Files
      /\ fileName \notin cut' => files'[fileName] = text
  BY <1>0, Written DEF SaveExisting
<1>2. /\ fileName' = fileName /\ firstTime' = FALSE /\ edited' = FALSE /\ text' = text
      /\ UNCHANGED runVars
  BY DEF SaveExisting
<1>3. FileTypeOK' /\ ShownFileIsSaved'
  BY <1>0, <1>1, <1>2 DEF EditorInv, FileTypeOK, ShownFileIsSaved
<1> QED
  BY <1>2, <1>3, RunsUnchanged DEF EditorInv

LEMMA RunRefusedStep == ASSUME EditorInv, RunRefused PROVE EditorInv'
<1>1. /\ ran' = Refused /\ ran'.process = 0 /\ alone' \in BOOLEAN
      /\ fullErr' = fullErr /\ processes' = processes /\ UNCHANGED <<text, fileVars>>
  BY DEF RunRefused, Refused
<1>2. RunTypeOK'
  BY <1>1 DEF EditorInv, RunTypeOK, ShapeInv
<1>3. ShapeInv'
  BY <1>1, EditorAssumption DEF EditorInv, ShapeInv, Refused
<1>4. LatestIsComplete' /\ RunInv'
  BY <1>1 DEF LatestIsComplete, RunInv
<1> QED
  BY <1>1, <1>2, <1>3, <1>4, FilesUnchanged DEF EditorInv

(* The pieces of a sequence are those behind none and those behind all.    *)
LEMMA WholeSubSeq == ASSUME NEW S, NEW s \in Seq(S) PROVE SubSeq(s, 1, Len(s)) = s
<1>1. /\ SubSeq(s, 1, Len(s)) \in Seq(S) /\ Len(SubSeq(s, 1, Len(s))) = Len(s)
      /\ \A i \in 1 .. Len(s) : SubSeq(s, 1, Len(s))[i] = s[i]
  <2>1. Len(s) \in Nat /\ \A i \in 1 .. Len(s) : s[i] \in S
    OBVIOUS
  <2>2. /\ SubSeq(s, 1, Len(s)) \in Seq(S)
        /\ Len(SubSeq(s, 1, Len(s))) = IF 1 <= Len(s) THEN Len(s) - 1 + 1 ELSE 0
        /\ \A i \in 1 .. Len(s) - 1 + 1 : SubSeq(s, 1, Len(s))[i] = s[1 + i - 1]
    BY <2>1, SubSeqProperties
  <2> QED
    BY <2>1, <2>2
<1> QED
  BY <1>1, SeqEqual

LEMMA RunStep == ASSUME EditorInv, Run PROVE EditorInv'
<1>1. PICK report \in PossibleReports(text, Len(processes) + 1), state \in {"running", "failed"} :
          /\ state = "failed" => report = << >>
          /\ processes' = Append(processes,
                [state |-> state, unread |-> report, reports |-> report # << >>,
                 lineStarts |-> getLineStartIndices(text)])
          /\ ran' = [process |-> Len(processes) + 1, code |-> text, report |-> report]
  BY DEF Run
<1>2. /\ Len(processes) + 1 <= MaxRuns /\ console' = << >> /\ fullErr' = << >>
      /\ alone' = (Running = {}) /\ UNCHANGED <<text, fileVars>>
  BY DEF Run, ClearedErrors
<1>3. PICK p : p = Len(processes) + 1
  OBVIOUS
<1>4. /\ processes \in Seq(Processes) /\ Len(processes) \in Nat /\ p \in Nat /\ p # 0
      /\ text \in Texts
  BY <1>3 DEF EditorInv, ShapeInv, FileTypeOK
<1>5. report \in Seq(Pieces) /\ \A i \in DOMAIN report : report[i].by = p
  BY <1>1, <1>3, <1>4, ReportPieces
<1>6. PICK started : started = [state |-> state, unread |-> report, reports |-> report # << >>,
                                lineStarts |-> getLineStartIndices(text)]
  OBVIOUS
<1>7. /\ started \in Processes /\ started.state = state /\ started.unread = report
      /\ started.lineStarts = getLineStartIndices(text)
  <2>1. getLineStartIndices(text) \in SUBSET Nat
    BY <1>4, LinesStart
  <2> QED
    BY <1>5, <1>6, <2>1 DEF Processes
<1>8. /\ processes' \in Seq(Processes) /\ Len(processes') = p /\ processes'[p] = started
      /\ \A q \in 1..Len(processes) : processes'[q] = processes[q]
  BY <1>1, <1>3, <1>4, <1>6, <1>7, AppendProperties
<1>9. /\ ran'.process = p /\ ran'.code = text /\ ran'.report = report
      /\ ran' \in [process : Nat, code : Texts, report : Seq(Pieces)]
  BY <1>1, <1>3, <1>4, <1>5
<1>10. DOMAIN processes' = 1..p /\ DOMAIN processes = 1..Len(processes)
  BY <1>4, <1>8
<1>11. ASSUME NEW q \in DOMAIN processes', q # p
       PROVE  q \in DOMAIN processes /\ processes'[q] = processes[q]
  BY <1>3, <1>4, <1>8, <1>10, <1>11
<1>12. RunTypeOK'
  <2>1. ASSUME NEW q \in DOMAIN processes'
        PROVE  /\ processes'[q].state \in {"running", "failed", "finished"}
               /\ processes'[q].state # "running" => processes'[q].unread = << >>
               /\ \A i \in DOMAIN processes'[q].unread : processes'[q].unread[i].by = q
    <3>1. CASE q = p
      BY <1>1, <1>5, <1>7, <1>8, <3>1
    <3>2. CASE q # p
      BY <1>11, <3>2 DEF EditorInv, RunTypeOK
    <3> QED
      BY <3>1, <3>2
  <2>2. alone' \in BOOLEAN
    BY <1>2
  <2>3. Len(processes') <= MaxRuns /\ ran'.process \in 0..Len(processes')
    BY <1>2, <1>3, <1>4, <1>8, <1>9
  <2> QED
    BY <2>1, <2>2, <2>3 DEF RunTypeOK
<1>13. ShapeInv'
  BY <1>2, <1>8, <1>9 DEF ShapeInv
<1>14. LatestIsComplete'
  <2>1. {i \in DOMAIN fullErr' : fullErr'[i].by = ran'.process} = {}
    BY <1>2
  <2>2. Cardinality({}) = 0
    BY FS_EmptySet
  <2>3. SubSeq(report, 1, Len(report)) = report /\ Len(report) \in Nat
    BY <1>5, WholeSubSeq
  <2>4. processes'[ran'.process].unread = SubSeq(ran'.report, 0 + 1, Len(ran'.report))
    BY <1>7, <1>8, <1>9, <2>3
  <2>5. Cardinality({i \in DOMAIN fullErr' : fullErr'[i].by = ran'.process}) = 0
    BY <2>1, <2>2
  <2>6. 0 <= Len(ran'.report)
    BY <1>9, <2>3
  <2> QED
    BY <2>1, <2>4, <2>5, <2>6, Zenon DEF LatestIsComplete
<1>15. RunInv'
  <2>1. Running' \subseteq Running \cup {p}
    BY <1>11 DEF Running
  <2>2. << >> \o report = report
    BY <1>5, ConcatEmptySeq
  <2>3. Shown(text, << >>) = << >>
    BY DEF Shown
  <2>4. ran'.report \in PossibleReports(ran'.code, ran'.process)
    BY <1>1, <1>3, <1>9
  <2>5. processes'[ran'.process].lineStarts = getLineStartIndices(ran'.code)
    BY <1>7, <1>8, <1>9
  <2>6. fullErr' \o processes'[ran'.process].unread = ran'.report
    BY <1>2, <1>7, <1>8, <1>9, <2>2
  <2>7. console' = IF processes'[ran'.process].state = "running" THEN << >>
                   ELSE Shown(ran'.code, ran'.report)
    BY <1>1, <1>2, <1>7, <1>8, <1>9, <2>3
  <2>8. alone' => Running' \subseteq {ran'.process}
    BY <1>2, <1>9, <2>1
  <2> QED
    BY <2>4, <2>5, <2>6, <2>7, <2>8 DEF RunInv
<1> QED
  BY <1>2, <1>12, <1>13, <1>14, <1>15, FilesUnchanged DEF EditorInv

(* What of a process is read next is of that process.                      *)
LEMMA ReadPiece ==
    ASSUME EditorInv, NEW p \in DOMAIN processes, processes[p].unread # << >>
    PROVE  /\ Head(processes[p].unread) \in Pieces
           /\ Head(processes[p].unread).by = p
           /\ Tail(processes[p].unread) \in Seq(Pieces)
           /\ \A i \in DOMAIN Tail(processes[p].unread) : Tail(processes[p].unread)[i].by = p
<1>1. processes \in Seq(Processes)
  BY DEF EditorInv, ShapeInv
<1>2. processes[p] \in Processes
  BY <1>1
<1>3. PICK u : u = processes[p].unread
  OBVIOUS
<1>4. u \in Seq(Pieces) /\ u # << >> /\ \A i \in DOMAIN u : u[i].by = p
  BY <1>2, <1>3 DEF Processes, EditorInv, RunTypeOK
<1>5. /\ Head(u) = u[1] /\ Head(u) \in Pieces /\ Tail(u) \in Seq(Pieces)
      /\ Len(Tail(u)) = Len(u) - 1 /\ \A i \in 1 .. Len(Tail(u)) : Tail(u)[i] = u[i + 1]
  BY <1>4, HeadTailProperties
<1>6. DOMAIN u = 1..Len(u) /\ DOMAIN Tail(u) = 1..Len(Tail(u)) /\ Len(u) \in Nat /\ Len(u) > 0
  BY <1>4, <1>5
<1>7. Head(u).by = p /\ \A i \in DOMAIN Tail(u) : Tail(u)[i].by = p
  BY <1>4, <1>5, <1>6
<1> QED
  BY <1>3, <1>5, <1>7

(* A process that reads or ends is changed alone.                          *)
LEMMA OneProcess ==
    ASSUME EditorInv, NEW p \in DOMAIN processes, NEW to \in Processes,
           processes' = [processes EXCEPT ![p] = to],
           to.state # "running" => to.unread = << >>,
           \A i \in DOMAIN to.unread : to.unread[i].by = p,
           UNCHANGED <<text, ran, alone, fileVars>>, fullErr' \in Seq(Pieces)
    PROVE  /\ RunTypeOK' /\ ShapeInv' /\ DOMAIN processes' = DOMAIN processes
           /\ processes'[p] = to
           /\ \A q \in DOMAIN processes : q # p => processes'[q] = processes[q]
<1>1. processes \in Seq(Processes) /\ p \in 1..Len(processes)
  BY DEF EditorInv, ShapeInv
<1>2. /\ processes' \in Seq(Processes) /\ Len(processes') = Len(processes)
      /\ \A q \in 1..Len(processes) : processes'[q] = IF q = p THEN to ELSE processes[q]
  BY <1>1, ExceptSeq
<1>3. DOMAIN processes' = 1..Len(processes) /\ DOMAIN processes = 1..Len(processes)
  BY <1>1, <1>2
<1>4. ShapeInv'
  BY <1>2 DEF EditorInv, ShapeInv
<1>5. to.state \in {"running", "failed", "finished"}
  BY DEF Processes
<1>6. RunTypeOK'
  BY <1>2, <1>3, <1>5 DEF EditorInv, RunTypeOK
<1> QED
  BY <1>2, <1>3, <1>4, <1>6

(* What has been read of the process of the last click.                    *)
Mine == {i \in DOMAIN fullErr : fullErr[i].by = ran.process}

Complete ==
    /\ Cardinality(Mine) <= Len(ran.report)
    /\ \A i \in Mine : fullErr[i] = ran.report[Cardinality({h \in Mine : h <= i})]
    /\ processes[ran.process].unread = SubSeq(ran.report, Cardinality(Mine) + 1, Len(ran.report))

LEMMA CompleteMeans == LatestIsComplete <=> (ran.process # 0 => Complete)
  BY Zenon DEF LatestIsComplete, Mine, Complete

(* Reading on: the piece read next is the one that was missing.            *)
LEMMA ReadsOn ==
    ASSUME NEW S, NEW s \in Seq(S), NEW n \in Nat, n <= Len(s),
           SubSeq(s, n + 1, Len(s)) # << >>
    PROVE  /\ n + 1 <= Len(s)
           /\ Head(SubSeq(s, n + 1, Len(s))) = s[n + 1]
           /\ Tail(SubSeq(s, n + 1, Len(s))) = SubSeq(s, (n + 1) + 1, Len(s))
<1>1. Len(s) \in Nat
  OBVIOUS
<1>2. n + 1 <= Len(s)
  <2>1. SUFFICES ASSUME Len(s) < n + 1 PROVE FALSE
    BY <1>1
  <2>2. SubSeq(s, n + 1, Len(s)) = << >>
    BY <1>1, <2>1, SubSeqEmpty
  <2> QED
    BY <2>2
<1>3. n + 1 \in 1 .. Len(s) /\ Len(s) \in n + 1 .. Len(s)
  BY <1>1, <1>2
<1> QED
  BY <1>2, <1>3, HeadTailOfSubSeq

LEMMA ReadyReadComplete ==
    ASSUME EditorInv, NEW p \in DOMAIN processes, ReadyRead(p)
    PROVE  LatestIsComplete'
<1> SUFFICES ASSUME ran.process # 0 PROVE LatestIsComplete'
  BY DEF ReadyRead, LatestIsComplete
<1>1. PICK piece : piece = Head(processes[p].unread)
  OBVIOUS
<1>2. /\ processes[p].unread # << >> /\ piece \in Pieces /\ piece.by = p
      /\ fullErr' = fullErr \o <<piece>> /\ ran' = ran
      /\ processes \in Seq(Processes) /\ fullErr \in Seq(Pieces)
      /\ processes' = [processes EXCEPT ![p].unread = Tail(@)]
  BY <1>1, ReadPiece DEF ReadyRead, readAllStandardError, EditorInv, ShapeInv
<1>3. PICK n \in Nat : n = Len(fullErr)
  <2>1. fullErr \in Seq(Pieces)
    BY <1>2
  <2> QED
    BY <2>1
<1>4. /\ DOMAIN fullErr = 1..n /\ DOMAIN fullErr' = 1..(n + 1)
      /\ fullErr'[n + 1] = piece
      /\ \A i \in 1..n : fullErr'[i] = fullErr[i]
  <2>1. fullErr' = Append(fullErr, piece)
    BY <1>2, AppendIsConcat
  <2> QED
    BY <1>2, <1>3, <2>1, AppendProperties
<1>5. /\ Cardinality(Mine) <= Len(ran.report)
      /\ \A i \in Mine : fullErr[i] = ran.report[Cardinality({h \in Mine : h <= i})]
      /\ processes[ran.process].unread = SubSeq(ran.report, Cardinality(Mine) + 1, Len(ran.report))
  BY CompleteMeans DEF EditorInv, Complete
<1>6. ran.process \in DOMAIN processes /\ ran.report \in Seq(Pieces)
  BY <1>2 DEF EditorInv, ShapeInv, RunTypeOK
<1>7. /\ \A q \in DOMAIN processes : q # p => processes'[q].unread = processes[q].unread
      /\ processes'[p].unread = Tail(processes[p].unread)
  <2>1. ASSUME NEW q \in DOMAIN processes PROVE processes[q] \in Processes
    BY <1>2
  <2>2. processes'[p] = [processes[p] EXCEPT !.unread = Tail(processes[p].unread)]
    BY <1>2
  <2> QED
    BY <1>2, <2>1, <2>2 DEF Processes
<1>8. Mine \subseteq 1..n
  BY <1>4 DEF Mine
<1>9. IsFiniteSet(Mine) /\ Cardinality(Mine) \in Nat
  <2>1. IsFiniteSet(1..n)
    BY FS_Interval
  <2> QED
    BY <1>8, <2>1, FS_Subset, FS_CardinalityType
<1>10. CASE p # ran.process
  <2>1. Mine' = Mine
    BY <1>2, <1>3, <1>4, <1>10 DEF Mine
  <2>2. \A i \in Mine : fullErr'[i] = fullErr[i]
    BY <1>4, <1>8
  <2>3. processes'[ran.process].unread = processes[ran.process].unread
    BY <1>6, <1>7, <1>10
  <2>4. /\ Cardinality(Mine') <= Len(ran'.report)
        /\ \A i \in Mine' : fullErr'[i] = ran'.report[Cardinality({h \in Mine' : h <= i})]
        /\ processes'[ran'.process].unread = SubSeq(ran'.report, Cardinality(Mine') + 1, Len(ran'.report))
    BY <1>2, <1>5, <2>1, <2>2, <2>3
  <2> QED
    <3>1. Complete'
      BY <2>4 DEF Complete
    <3> QED
      BY <3>1, CompleteMeans, PTL
<1>11. CASE p = ran.process
  <2>1. Mine' = Mine \cup {n + 1}
    BY <1>2, <1>3, <1>4, <1>11 DEF Mine
  <2>2. n + 1 \notin Mine
    BY <1>8
  <2>3. PICK m \in Nat : m = Cardinality(Mine)
    BY <1>9
  <2>4. Cardinality(Mine') = m + 1
    BY <1>9, <2>1, <2>2, <2>3, FS_AddElement
  <2>5. /\ m + 1 <= Len(ran.report)
        /\ piece = ran.report[m + 1]
        /\ processes'[ran.process].unread = SubSeq(ran.report, (m + 1) + 1, Len(ran.report))
    <3>1. processes[p].unread = SubSeq(ran.report, m + 1, Len(ran.report)) /\ m <= Len(ran.report)
      BY <1>5, <1>11, <2>3
    <3>2. SubSeq(ran.report, m + 1, Len(ran.report)) # << >>
      BY <1>2, <3>1
    <3>3. /\ m + 1 <= Len(ran.report)
          /\ Head(SubSeq(ran.report, m + 1, Len(ran.report))) = ran.report[m + 1]
          /\ Tail(SubSeq(ran.report, m + 1, Len(ran.report))) =
                SubSeq(ran.report, (m + 1) + 1, Len(ran.report))
      BY <1>6, <3>1, <3>2, ReadsOn
    <3> QED
      BY <1>1, <1>7, <1>11, <3>1, <3>3
  <2>6. ASSUME NEW i \in Mine' PROVE fullErr'[i] = ran.report[Cardinality({h \in Mine' : h <= i})]
    <3>1. CASE i = n + 1
      <4>1. {h \in Mine' : h <= n + 1} = Mine'
        <5>1. \A h \in Mine' : h <= n + 1
          BY <1>8, <2>1
        <5> QED
          BY <5>1
      <4> QED
        BY <1>4, <2>4, <2>5, <3>1, <4>1
    <3>2. CASE i # n + 1
      <4>1. i \in Mine /\ i \in 1..n
        BY <1>8, <2>1, <3>2
      <4>2. {h \in Mine' : h <= i} = {h \in Mine : h <= i}
        BY <2>1, <4>1
      <4> QED
        BY <1>4, <1>5, <4>1, <4>2
    <3> QED
      BY <3>1, <3>2
  <2>7. /\ Cardinality(Mine') <= Len(ran'.report)
        /\ \A i \in Mine' : fullErr'[i] = ran'.report[Cardinality({h \in Mine' : h <= i})]
        /\ processes'[ran'.process].unread = SubSeq(ran'.report, Cardinality(Mine') + 1, Len(ran'.report))
    BY <1>2, <2>4, <2>5, <2>6
  <2> QED
    <3>1. Complete'
      BY <2>7 DEF Complete
    <3> QED
      BY <3>1, CompleteMeans, PTL
<1> QED
  BY <1>10, <1>11

LEMMA ReadyReadStep ==
    ASSUME EditorInv, NEW p \in DOMAIN processes, ReadyRead(p)
    PROVE  EditorInv'
<1>1. PICK piece : piece = Head(processes[p].unread)
  OBVIOUS
<1>2. PICK rest : rest = Tail(processes[p].unread)
  OBVIOUS
<1>3. /\ processes[p].state = "running" /\ processes[p].unread # << >>
      /\ piece \in Pieces /\ rest \in Seq(Pieces) /\ \A i \in DOMAIN rest : rest[i].by = p
      /\ fullErr' = fullErr \o <<piece>> /\ UNCHANGED <<text, console, ran, alone, fileVars>>
      /\ processes \in Seq(Processes) /\ fullErr \in Seq(Pieces)
      /\ processes' = [processes EXCEPT ![p].unread = Tail(@)]
  BY <1>1, <1>2, ReadPiece DEF ReadyRead, Running, readAllStandardError, EditorInv, ShapeInv
<1>4. processes[p] \in Processes
  BY <1>3
<1>5. PICK to \in Processes :
          /\ processes' = [processes EXCEPT ![p] = to]
          /\ to.state = "running" /\ to.unread = rest /\ to.lineStarts = processes[p].lineStarts
  <2> DEFINE to == [processes[p] EXCEPT !.unread = rest]
  <2>1. /\ to \in Processes /\ to.state = "running" /\ to.unread = rest
        /\ to.lineStarts = processes[p].lineStarts
    BY <1>3, <1>4 DEF Processes
  <2>2. processes' = [processes EXCEPT ![p] = to]
    BY <1>2, <1>3
  <2> QED
    BY <2>1, <2>2
<1>6. fullErr' \in Seq(Pieces)
  <2>1. <<piece>> \in Seq(Pieces)
    BY <1>3
  <2> QED
    BY <1>3, <2>1, ConcatProperties
<1>7. /\ RunTypeOK' /\ ShapeInv' /\ DOMAIN processes' = DOMAIN processes
      /\ processes'[p] = to
      /\ \A q \in DOMAIN processes : q # p => processes'[q] = processes[q]
  BY <1>3, <1>5, <1>6, OneProcess
<1>8. \A q \in DOMAIN processes : /\ processes'[q].state = processes[q].state
                                  /\ processes'[q].lineStarts = processes[q].lineStarts
  BY <1>3, <1>5, <1>7
<1>9. Running' = Running /\ p \in Running
  BY <1>3, <1>7, <1>8 DEF Running
<1>10. RunInv'
  <2> SUFFICES ASSUME ran.process # 0 PROVE RunInv'
    BY <1>3 DEF RunInv
  <2>1. ran.process \in DOMAIN processes
    BY <1>3 DEF EditorInv, ShapeInv, RunTypeOK
  <2>2. ASSUME alone, fullErr \o processes[ran.process].unread = ran.report, p = ran.process
        PROVE  fullErr' \o processes'[ran.process].unread = ran.report
    <3>1. PICK u : u = processes[p].unread
      OBVIOUS
    <3>2. u = <<piece>> \o rest
      <4>1. u \in Seq(Pieces) /\ u # << >>
        BY <1>3, <1>4, <3>1 DEF Processes
      <4>2. Head(u) = piece /\ Tail(u) = rest
        BY <1>1, <1>2, <3>1
      <4> QED
        BY ONLY <4>1, <4>2, SMTT(30)
    <3>3. fullErr' \o rest = fullErr \o (<<piece>> \o rest)
      <4>1. <<piece>> \in Seq(Pieces)
        BY <1>3
      <4> QED
        BY <1>3, <4>1, ConcatAssociative
    <3> QED
      BY <1>5, <1>7, <2>2, <3>1, <3>2, <3>3
  <2>3. ASSUME alone PROVE p = ran.process
    BY <1>9, <2>3 DEF EditorInv, RunInv
  <2>4. ran'.process = ran.process /\ ran'.code = ran.code /\ ran'.report = ran.report
    BY <1>3
  <2>5. processes'[ran.process].state = processes[ran.process].state
    BY <1>8, <2>1
  <2>6. processes'[ran.process].lineStarts = processes[ran.process].lineStarts
    BY <1>8, <2>1
  <2> QED
    BY <1>3, <1>9, <2>2, <2>3, <2>4, <2>5, <2>6 DEF EditorInv, RunInv
<1> QED
  BY <1>3, <1>7, <1>10, ReadyReadComplete, FilesUnchanged DEF EditorInv
-----------------------------------------------------------------------------
LEMMA Least == ASSUME NEW S \in SUBSET Nat, S # {} PROVE \E x \in S : \A y \in S : x <= y
<1> DEFINE R == OpToRel(<, Nat)
<1>1. IsWellFoundedOn(R, Nat)
  BY NatLessThanWellFounded
<1>2. \A x, y \in Nat : <<y, x>> \in R <=> y < x
  BY DEF OpToRel
<1> HIDE DEF R
<1>3. PICK x \in S : \A y \in S : ~(<<y, x>> \in R)
  BY <1>1, WFMin
<1>4. \A y \in S : ~(y < x)
  BY <1>2, <1>3
<1> QED
  BY <1>4

LEMMA Greatest ==
    ASSUME NEW S \in SUBSET Nat, S # {}, NEW n \in Nat, \A x \in S : x <= n
    PROVE  \E x \in S : \A y \in S : x >= y
<1> DEFINE T == {m \in Nat : \A x \in S : x <= m}
<1>1. PICK m \in T : \A y \in T : m <= y
  <2>1. T \in SUBSET Nat /\ T # {}
    OBVIOUS
  <2> QED
    BY <2>1, Least
<1>2. CASE m = 0
  <2>1. PICK x \in S : TRUE
    OBVIOUS
  <2>2. x <= 0 /\ \A y \in S : y <= 0 /\ y >= 0
    BY <1>1, <1>2
  <2> QED
    BY <2>2
<1>3. CASE m # 0
  <2>1. m - 1 \notin T
    BY <1>1, <1>3
  <2>2. PICK x \in S : ~(x <= m - 1)
    BY <2>1, <1>3, <1>1
  <2> QED
    BY <2>2, <1>1
<1> QED
  BY <1>2, <1>3

LEMMA MaxIs ==
    ASSUME NEW S \in SUBSET Nat, NEW m \in S, \A y \in S : m >= y
    PROVE  Max(S) = m
<1>1. \A x \in S : (\A y \in S : x >= y) => x = m
  OBVIOUS
<1> QED
  BY <1>1 DEF Max

(* One line starts at 0 and each other at a line break: the starts up to a *)
(* position are one more than the line breaks up to it.                    *)
LEMMA PositionShown ==
    ASSUME NEW code \in Texts, NEW pos \in 0..Len(code)
    PROVE  getTextPosition(getLineStartIndices(code), pos) = ShownAt(code, pos)
<1> DEFINE upTo == {n \in Newlines(code) : n <= pos /\ n # Len(code)}
           starts == {s \in getLineStartIndices(code) : s <= pos}
<1>1. Len(code) \in Nat /\ pos \in Nat
  BY Texted
<1>2. upTo \in SUBSET Nat /\ 0 \notin upTo /\ \A n \in upTo : n <= pos /\ n > 0
  BY <1>1 DEF Newlines
<1>3. starts = upTo \cup {0}
  BY <1>1, <1>2 DEF getLineStartIndices
<1>4. IsFiniteSet(upTo) /\ Cardinality(upTo) \in Nat
  <2>1. upTo \subseteq 1..Len(code) /\ IsFiniteSet(1..Len(code))
    BY <1>1, FS_Interval DEF Newlines
  <2> QED
    BY <2>1, FS_Subset, FS_CardinalityType
<1>5. Cardinality(starts) = Cardinality(upTo) + 1
  BY <1>2, <1>3, <1>4, FS_AddElement
<1> HIDE DEF upTo, starts
<1>6. Max(starts) = IF upTo = {} THEN 0 ELSE Max(upTo)
  <2>1. CASE upTo = {}
    BY <1>3, <2>1, MaxIs
  <2>2. CASE upTo # {}
    <3>1. PICK m \in upTo : \A n \in upTo : m >= n
      BY <1>1, <1>2, <2>2, Greatest
    <3>2. Max(upTo) = m
      BY <1>2, <3>1, MaxIs
    <3>3. m \in starts /\ starts \in SUBSET Nat /\ \A n \in starts : m >= n
      BY <1>2, <1>3, <3>1
    <3>4. Max(starts) = m
      BY <3>3, MaxIs
    <3> QED
      BY <2>2, <3>2, <3>4
  <2> QED
    BY <2>1, <2>2
<1>7. starts # {}
  BY <1>3
<1>8. getTextPosition(getLineStartIndices(code), pos) =
         <<Cardinality(starts) - 1, pos - Max(starts)>>
  BY <1>7, Zenon DEF getTextPosition, starts
<1>9. ShownAt(code, pos) = <<Cardinality(upTo), pos - (IF upTo = {} THEN 0 ELSE Max(upTo))>>
  BY Zenon DEF ShownAt, upTo
<1>10. Cardinality(starts) - 1 = Cardinality(upTo)
  BY <1>4, <1>5
<1> QED
  BY <1>6, <1>8, <1>9, <1>10

(* A report is one line, which its last piece ends.                        *)
LEMMA OneLine ==
    ASSUME NEW s \in Seq(Pieces), NEW n \in Nat, n = Len(s), n > 0, s[n].part = "endl",
           \A i \in 1..(n - 1) : s[i].part # "endl"
    PROVE  DOMAIN Lines(s) = {1} /\ Lines(s)[1] = SubSeq(s, 1, n - 1)
<1>1. EndsOfLines(s) = {n}
  <2>1. {i \in DOMAIN s : s[i].part = "endl"} = {n}
    <3>1. DOMAIN s = 1..n
      OBVIOUS
    <3>2. n \in 1..n /\ \A i \in 1..n : i # n => i \in 1..(n - 1)
      OBVIOUS
    <3> QED
      BY <3>1, <3>2
  <2>2. {i \in {Len(s) + 1} : i > 1 /\ s[i - 1].part # "endl"} = {}
    <3>1. n + 1 - 1 = n
      OBVIOUS
    <3> QED
      BY <3>1
  <2> QED
    BY <2>1, <2>2 DEF EndsOfLines
<1>2. Cardinality({n}) = 1
  BY FS_Singleton
<1>3. LineTo(s, n) = SubSeq(s, 1, n - 1)
  <2>1. {0} \cup {i \in EndsOfLines(s) : i < n} = {0}
    BY <1>1
  <2>3. PICK before : before = {0} \cup {i \in EndsOfLines(s) : i < n}
    OBVIOUS
  <2>4. LineTo(s, n) = SubSeq(s, Max(before) + 1, n - 1)
    BY <2>3, Zenon DEF LineTo
  <2>5. before = {0}
    BY <2>1, <2>3
  <2>6. Max(before) = 0
    BY <2>5, MaxIs
  <2> QED
    BY <2>4, <2>6
<1>4. (CHOOSE end \in EndsOfLines(s) : Cardinality({i \in EndsOfLines(s) : i <= end}) = 1) = n
  <2>1. {i \in EndsOfLines(s) : i <= n} = {n}
    BY <1>1
  <2> QED
    BY <1>1, <1>2, <2>1
<1>5. 1..Cardinality(EndsOfLines(s)) = {1}
  BY <1>1, <1>2
<1> QED
  BY <1>3, <1>4, <1>5 DEF Lines

LEMMA NoLine == DOMAIN Lines(<< >>) = {}
<1>1. EndsOfLines(<< >>) = {}
  BY DEF EndsOfLines
<1>2. 1..Cardinality({}) = {}
  BY FS_EmptySet
<1> QED
  BY <1>1, <1>2 DEF Lines

(* What the handler of finished prints of one report: what should be shown *)
(* of it.                                                                  *)
LEMMA WindowShows ==
    ASSUME NEW code \in Texts, NEW p \in Nat, NEW report \in PossibleReports(code, p)
    PROVE  [k \in DOMAIN Lines(report) |-> Printed(Lines(report)[k], getLineStartIndices(code))]
               = Shown(code, report)
<1> DEFINE shows == [k \in DOMAIN Lines(report) |->
                        Printed(Lines(report)[k], getLineStartIndices(code))]
<1>1. CASE report = << >>
  <2>1. shows = << >>
    BY <1>1, NoLine
  <2> QED
    BY <1>1, <2>1 DEF Shown
<1>2. ASSUME NEW line, DOMAIN Lines(report) = {1}, Lines(report)[1] = line
      PROVE  shows = <<Printed(line, getLineStartIndices(code))>>
  BY <1>2
<1>3. report \in Seq(Pieces)
  BY ReportPieces
<1>4. CASE report = RuntimeReport(p)
  <2>1. /\ report = <<Piece("RUNTIME_ERROR", 0, p), Piece("message", 0, p), Piece("endl", 0, p)>>
        /\ Len(report) = 3 /\ report # << >>
    BY <1>4, RuntimePieces
  <2>2. /\ report[1].part = "RUNTIME_ERROR" /\ report[2].part = "message"
        /\ report[3].part = "endl"
    BY <2>1 DEF Piece
  <2>3. DOMAIN Lines(report) = {1} /\ Lines(report)[1] = SubSeq(report, 1, 2)
    <3>1. \A i \in 1..(3 - 1) : report[i].part # "endl"
      BY <2>2
    <3>2. 3 = Len(report)
      BY <2>1
    <3>3. DOMAIN Lines(report) = {1} /\ Lines(report)[1] = SubSeq(report, 1, 3 - 1)
      <4>1. report[3].part = "endl" /\ 3 \in Nat /\ 3 > 0
        BY <2>2
      <4> QED
        BY ONLY <1>3, <3>1, <3>2, <4>1, OneLine, Zenon
    <3> QED
      BY <3>3
  <2>4. PICK line : line = SubSeq(report, 1, 2)
    OBVIOUS
  <2>5. Len(line) = 2 /\ line[1] = report[1] /\ line # << >> /\ Head(line) = line[1]
    BY <1>3, <2>1, <2>4
  <2>6. Printed(line, getLineStartIndices(code)) = Message("line", <<0, 0>>, line)
    BY <2>2, <2>5 DEF Printed
  <2>7. Shown(code, report) = <<Message("line", <<0, 0>>, line)>>
    <3>1. Head(report) = report[1] /\ Front(report) = line
      BY <2>1, <2>4 DEF Front
    <3> QED
      BY <2>1, <2>2, <3>1 DEF Shown
  <2> QED
    BY <1>2, <2>3, <2>4, <2>6, <2>7
<1>5. ASSUME NEW pos \in 0..Len(code), report = SyntaxReport(pos, p)
      PROVE  shows = Shown(code, report)
  <2>0. pos \in Nat
    BY Texted
  <2>1. /\ report = <<Piece("SYNTAX_ERROR", 0, p), Piece("pos", pos, p), Piece("message", 0, p),
                      Piece("endl", 0, p)>>
        /\ Len(report) = 4 /\ report # << >>
    BY <1>5, <2>0, SyntaxPieces
  <2>2. /\ report[1].part = "SYNTAX_ERROR" /\ report[2].part = "pos" /\ report[2].pos = pos
        /\ report[3].part = "message" /\ report[4].part = "endl"
    BY <2>1 DEF Piece
  <2>3. DOMAIN Lines(report) = {1} /\ Lines(report)[1] = SubSeq(report, 1, 3)
    <3>1. \A i \in 1..(4 - 1) : report[i].part # "endl"
      BY <2>2
    <3>2. 4 = Len(report)
      BY <2>1
    <3>3. DOMAIN Lines(report) = {1} /\ Lines(report)[1] = SubSeq(report, 1, 4 - 1)
      <4>1. report[4].part = "endl" /\ 4 \in Nat /\ 4 > 0
        BY <2>2
      <4> QED
        BY ONLY <1>3, <3>1, <3>2, <4>1, OneLine, Zenon
    <3> QED
      BY <3>3
  <2>4. PICK line : line = SubSeq(report, 1, 3)
    OBVIOUS
  <2>5. /\ Len(line) = 3 /\ line[1] = report[1] /\ line[2] = report[2] /\ line[3] = report[3]
        /\ line # << >> /\ Head(line) = line[1] /\ line \in Seq(Pieces)
    BY <1>3, <2>1, <2>4
  <2>6. SubSeq(line, 3, Len(line)) = <<report[3]>>
    <3>1. report[3] \in Pieces /\ \A i \in 3..3 : line[i] \in Pieces
      <4>1. report[3] \in Pieces
        BY <1>3, <2>1
      <4>2. \A i \in 3..3 : i = 3
        OBVIOUS
      <4>3. line[3] = report[3]
        BY <2>5
      <4> QED
        BY ONLY <4>1, <4>2, <4>3
    <3>2. /\ SubSeq(line, 3, 3) \in Seq(Pieces)
          /\ Len(SubSeq(line, 3, 3)) = IF 3 <= 3 THEN 3 - 3 + 1 ELSE 0
          /\ \A i \in 1..(3 - 3 + 1) : SubSeq(line, 3, 3)[i] = line[3 + i - 1]
      BY <3>1, SubSeqProperties
    <3>3. PICK rest : rest = SubSeq(line, 3, 3)
      OBVIOUS
    <3>4. rest \in Seq(Pieces) /\ Len(rest) = 1 /\ rest[1] = report[3]
      BY <2>5, <3>2, <3>3
    <3>5. rest = <<report[3]>>
      BY ONLY <3>4
    <3> QED
      BY <2>5, <3>3, <3>5
  <2>7. Printed(line, getLineStartIndices(code)) =
           Message("syntax", getTextPosition(getLineStartIndices(code), pos), <<report[3]>>)
    <3>1. /\ ~(line = << >> \/ Head(line).part # "SYNTAX_ERROR")
          /\ Len(line) > 1 /\ line[2].part = "pos" /\ line[2].pos = pos
      BY <2>2, <2>5
    <3> QED
      BY <2>6, <3>1, Zenon DEF Printed
  <2>8. Shown(code, report) = <<Message("syntax", ShownAt(code, pos), <<report[3]>>)>>
    <3>1. Head(report) = report[1]
      BY <2>1
    <3> QED
      BY <2>1, <2>2, <3>1 DEF Shown
  <2> QED
    BY <1>2, <2>3, <2>4, <2>7, <2>8, PositionShown
<1> QED
  BY <1>1, <1>4, <1>5 DEF PossibleReports

LEMMA FinishedStep ==
    ASSUME EditorInv, NEW p \in DOMAIN processes, Finished(p)
    PROVE  EditorInv'
<1>1. /\ processes[p].state = "running" /\ processes[p].unread = << >>
      /\ fullErr' = fullErr /\ UNCHANGED <<text, ran, alone, fileVars>>
      /\ processes' = [processes EXCEPT ![p] = Deleted]
      /\ console' = console \o [k \in DOMAIN Lines(fullErr) |->
                                   Printed(Lines(fullErr)[k], processes[p].lineStarts)]
  BY DEF Finished, ErrorsLeft, Running
<1>2. Deleted \in Processes /\ Deleted.state = "finished" /\ Deleted.unread = << >>
  BY DEF Deleted, Processes
<1>3. /\ RunTypeOK' /\ ShapeInv' /\ DOMAIN processes' = DOMAIN processes
      /\ processes'[p] = Deleted
      /\ \A q \in DOMAIN processes : q # p => processes'[q] = processes[q]
  <2>1. \A i \in DOMAIN Deleted.unread : Deleted.unread[i].by = p
    BY <1>2
  <2>2. fullErr' \in Seq(Pieces)
    BY <1>1 DEF EditorInv, ShapeInv
  <2>3. Deleted.state # "running" => Deleted.unread = << >>
    BY <1>2
  <2> QED
    BY <1>1, <1>2, <2>1, <2>2, <2>3, OneProcess
<1>4. \A q \in DOMAIN processes : processes'[q].unread = processes[q].unread
  BY <1>1, <1>2, <1>3
<1>5. ran.process # 0 => ran.process \in DOMAIN processes
  BY DEF EditorInv, ShapeInv, RunTypeOK
<1>6. LatestIsComplete'
  <2> SUFFICES ASSUME ran.process # 0 PROVE LatestIsComplete'
    BY <1>1 DEF LatestIsComplete
  <2>1. Complete
    BY CompleteMeans DEF EditorInv
  <2>2. Mine' = Mine
    BY <1>1 DEF Mine
  <2>3. Complete'
    BY <1>1, <1>4, <1>5, <2>1, <2>2 DEF Complete
  <2> QED
    BY <2>3, CompleteMeans, PTL
<1>7. RunInv'
  <2> SUFFICES ASSUME ran.process # 0 PROVE RunInv'
    BY <1>1 DEF RunInv
  <2>1. /\ ran.report \in PossibleReports(ran.code, ran.process)
        /\ processes[ran.process].state = "running" =>
              processes[ran.process].lineStarts = getLineStartIndices(ran.code)
        /\ alone => /\ Running \subseteq {ran.process}
                    /\ fullErr \o processes[ran.process].unread = ran.report
                    /\ console = IF processes[ran.process].state = "running" THEN << >>
                                 ELSE Shown(ran.code, ran.report)
    BY DEF EditorInv, RunInv
  <2>2. Running' \subseteq Running
    BY <1>1, <1>2, <1>3 DEF Running
  <2>3. processes'[ran.process].state = "running" =>
           processes'[ran.process].lineStarts = getLineStartIndices(ran.code)
    BY <1>2, <1>3, <1>5, <2>1
  <2>4. ASSUME alone
        PROVE  /\ processes'[ran.process].state # "running"
               /\ console' = Shown(ran.code, ran.report)
    <3>1. p = ran.process
      BY <1>1, <2>1, <2>4 DEF Running
    <3>2. fullErr = ran.report
      <4>1. fullErr \o << >> = fullErr
        BY ConcatEmptySeq DEF EditorInv, ShapeInv
      <4> QED
        BY <1>1, <2>1, <2>4, <3>1, <4>1
    <3>3. /\ ran.code \in Texts /\ ran.process \in Nat
          /\ console = << >> /\ processes[p].lineStarts = getLineStartIndices(ran.code)
      BY <1>1, <2>1, <2>4, <3>1 DEF EditorInv, ShapeInv
    <3>4. [k \in DOMAIN Lines(ran.report) |->
              Printed(Lines(ran.report)[k], getLineStartIndices(ran.code))]
             = Shown(ran.code, ran.report)
      BY <2>1, <3>3, WindowShows
    <3>5. << >> \o Shown(ran.code, ran.report) = Shown(ran.code, ran.report)
      <4>1. \E m1, m2 : Shown(ran.code, ran.report) \in {<< >>, <<m1>>, <<m2>>}
        BY DEF Shown
      <4> QED
        BY <4>1
    <3>6. console' = << >> \o Shown(ran.code, ran.report)
      BY <1>1, <3>2, <3>3, <3>4
    <3> QED
      BY <1>2, <1>3, <3>1, <3>5, <3>6
  <2>5. fullErr' \o processes'[ran.process].unread = fullErr \o processes[ran.process].unread
    BY <1>1, <1>4, <1>5
  <2>6. ran'.process = ran.process /\ ran'.code = ran.code /\ ran'.report = ran.report
    BY <1>1
  <2> QED
    BY <1>1, <2>1, <2>2, <2>3, <2>4, <2>5, <2>6 DEF RunInv
<1> QED
  BY <1>1, <1>3, <1>6, <1>7, FilesUnchanged DEF EditorInv

LEMMA EditorSteps == EditorInv /\ [EditorNext]_editorVars => EditorInv'
<1> SUFFICES ASSUME EditorInv, [EditorNext]_editorVars PROVE EditorInv'
  OBVIOUS
<1>1. ASSUME NEW new \in Texts, Edit(new) PROVE EditorInv'
  BY <1>1, EditStep
<1>2. ASSUME NEW f \in Files, Open(f) PROVE EditorInv'
  BY <1>2, OpenStep
<1>3. ASSUME NEW f \in Files, SaveNew(f) PROVE EditorInv'
  BY <1>3, SaveNewStep
<1>4. CASE Save
  BY <1>3, <1>4, SaveExistingStep DEF Save
<1>5. CASE SaveAs
  BY <1>3, <1>5 DEF SaveAs
<1>6. CASE RunRefused
  BY <1>6, RunRefusedStep
<1>7. CASE Run
  BY <1>7, RunStep
<1>8. ASSUME NEW p \in DOMAIN processes, ReadyRead(p) PROVE EditorInv'
  BY <1>8, ReadyReadStep
<1>9. ASSUME NEW p \in DOMAIN processes, Finished(p) PROVE EditorInv'
  BY <1>9, FinishedStep
<1>10. CASE UNCHANGED editorVars
  BY <1>10, RunsUnchanged, FilesUnchanged DEF editorVars, EditorInv
<1> QED
  BY <1>1, <1>2, <1>4, <1>5, <1>6, <1>7, <1>8, <1>9, <1>10 DEF EditorNext

LEMMA EditorInvariance == EditorSpec => []EditorInv
  BY EditorStarts, EditorSteps, PTL DEF EditorSpec

(* Whatever is typed, opened, saved and run, every piece of a report stays *)
(* with the process that wrote it, and the window names a file exactly     *)
(* once one has been opened or saved (main.cpp:200-383).                   *)
THEOREM EditorIsTyped == EditorSpec => []EditorTypeOK
<1>1. EditorInv => EditorTypeOK
  BY DEF EditorInv, FileTypeOK, RunTypeOK, EditorTypeOK
<1> QED
  BY <1>1, EditorInvariance, PTL

(* A text that was not edited since it was opened or saved is in the file  *)
(* the window names, for any files, unless a write to that file has failed *)
(* (main.cpp:296-383).                                                     *)
THEOREM SavesWhatIsShown == EditorSpec => []ShownFileIsSaved
<1>1. EditorInv => ShownFileIsSaved
  BY DEF EditorInv
<1> QED
  BY <1>1, EditorInvariance, PTL

(* However many processes overlap, fullErr has all that was read of the    *)
(* last, in the order it was written (main.cpp:225-232).                   *)
THEOREM LosesNoError == EditorSpec => []LatestIsComplete
<1>1. EditorInv => LatestIsComplete
  BY DEF EditorInv
<1> QED
  BY <1>1, EditorInvariance, PTL

(* A program run alone is reported once and at its own lines and columns,  *)
(* for texts of any length and any number of runs before and edits since   *)
(* (main.cpp:204-271, 47-72).                                              *)
THEOREM ShowsTheReport == EditorSpec => []ReportsTheRun
<1>1. EditorInv => ReportsTheRun
  <2> SUFFICES ASSUME EditorInv, ran.process # 0, alone, Running = {}
               PROVE  console = Shown(ran.code, ran.report)
    BY DEF ReportsTheRun
  <2>1. ran.process \in DOMAIN processes
    BY DEF EditorInv, ShapeInv, RunTypeOK
  <2>2. processes[ran.process].state # "running"
    BY <2>1 DEF Running
  <2> QED
    BY <2>2 DEF EditorInv, RunInv
<1> QED
  BY <1>1, EditorInvariance, PTL
=============================================================================
