---------------------------- MODULE IdDocumentCheck ----------------------------
(***************************************************************************)
(* The verdict on an uploaded document                                     *)
(* (backend/src/uploads/id-document-check.ts).  Google Vision's answer is  *)
(* taken as the signals scoreDocument draws from it: whether the text has  *)
(* a machine-readable zone, how many field keywords it holds, the best     *)
(* label, and whether there is a face next to readable text.               *)
(***************************************************************************)
EXTENDS Integers

\* Vision could not be asked: no key, a network error, a time-out, an error in
\* the body.
CONSTANT NoAnswer

KEYWORD_HITS_FOR_PASS == 2

\* What scoreDocument looks at.
Signals == [mrz : BOOLEAN, hits : Nat, label : {"strong", "weak", "none"},
            faceAndText : BOOLEAN]
ASSUME NoAnswerIsNoSignal == NoAnswer \notin Signals

Least(i, j) == IF i < j THEN i ELSE j

Score(s) ==
  (IF s.mrz THEN 5 ELSE 0)
  + 3 * Least(s.hits, 3)
  + (IF s.label = "strong" THEN 3 ELSE IF s.label = "weak" THEN 1 ELSE 0)
  + (IF s.faceAndText THEN 2 ELSE 0)

\* The bands of scoreDocument, which does not look at the score.
ScoreDocument(s) ==
  IF s.mrz \/ s.hits >= KEYWORD_HITS_FOR_PASS \/ s.label = "strong" THEN "pass"
  ELSE IF s.hits = 0 /\ s.label = "none" /\ ~s.faceAndText THEN "reject"
  ELSE "uncertain"

\* analyzeIdDocument: without an answer, a human decides.
Verdict(s) == IF s = NoAnswer THEN "uncertain" ELSE ScoreDocument(s)
=============================================================================
