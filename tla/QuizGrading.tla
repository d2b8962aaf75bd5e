---------------------------- MODULE QuizGrading ----------------------------
(***************************************************************************)
(* How a quiz attempt is drawn up and graded: src/src/lib/quiz-grading.ts. *)
(*                                                                         *)
(* Everything there is pure, and so are the operators here.  Points are    *)
(* kept in hundredths, as round2 leaves them; a response is the sequence   *)
(* of the options picked, or of the one text typed.  Two texts that        *)
(* normaliseAnswer makes equal are one item, and an empty one is none.     *)
(***************************************************************************)
EXTENDS Naturals, Integers, Sequences, SequencesExt

CONSTANTS
  MaxOptions, \* bound on the options of a question, which are numbered
  Points      \* what questions may be worth

ASSUME GradingAssumption == MaxOptions \in Nat \ {0, 1} /\ Points \subseteq Nat \ {0}

Types == {"SINGLE_CHOICE", "MULTIPLE_CHOICE", "TRUE_FALSE", "FILL_BLANK", "ORDERING"}

-----------------------------------------------------------------------------
(* Drawing up *)

(* Each way to order a sequence without repetitions. *)
Shuffles(seq) ==
  {s \in [DOMAIN seq -> ToSet(seq)] : \A i, j \in DOMAIN s : s[i] = s[j] => i = j}

Rotated(seq) == Append(Tail(seq), Head(seq))

(* buildAttemptSnapshot: the orders in which a question's options may be shown.  The *)
(* items to be ordered are always shuffled, and turned once if that changed nothing. *)
Shown(q, shuffleOptions) ==
  CASE q.type = "ORDERING" ->
         {IF Len(s) > 1 /\ s = q.options THEN Rotated(s) ELSE s : s \in Shuffles(q.options)}
    [] q.type \in {"SINGLE_CHOICE", "MULTIPLE_CHOICE"} /\ shuffleOptions -> Shuffles(q.options)
    [] OTHER -> {q.options}

(* The questions of the bank an attempt may get, drawn at random, in quiz order *)
(* unless they are shuffled; 0 for no draw count.                               *)
Drawn(bank, drawCount, shuffleQuestions) ==
  LET all == DOMAIN bank
      picked == IF drawCount # 0 /\ drawCount < Len(bank)
                THEN {p \in SUBSET all : Cardinality(p) = drawCount} ELSE {all}
      inOrder(p) == SetToSortSeq(p, <)
  IN UNION {IF shuffleQuestions THEN Shuffles(inOrder(p)) ELSE {inOrder(p)} : p \in picked}

-----------------------------------------------------------------------------
(* Grading *)

round2(points, num, den) == (200 * points * num + den) \div (2 * den)

(* The known options picked, each once. *)
ChosenOf(q, picks) ==
  LET add(seq, o) == IF o \in ToSet(q.options) \ ToSet(seq) THEN Append(seq, o) ELSE seq
  IN FoldLeft(add, <<>>, picks)

Full(q, isCorrect) == [isCorrect |-> isCorrect, points |-> IF isCorrect THEN 100 * q.points ELSE 0]
Part(q, num, den) == [isCorrect |-> FALSE, points |-> round2(q.points, num, den)]

gradeChoicesPlain(q, chosen, partialCredit) ==
  LET right == Cardinality(ToSet(chosen) \cap q.correct)
      size  == Cardinality(q.correct)
  IN IF right = size THEN Full(q, TRUE)
     ELSE IF ~ partialCredit \/ size = 0 THEN Full(q, FALSE) ELSE Part(q, right, size)

gradeChoices(q, chosen, partialCredit) ==
  LET right == Cardinality(ToSet(chosen) \cap q.correct)
      wrong == Len(chosen) - right
      size  == Cardinality(q.correct)
  IN IF right = size /\ wrong = 0 THEN Full(q, TRUE)
     ELSE IF ~ partialCredit \/ size = 0 THEN Full(q, FALSE)
     ELSE Part(q, IF right > wrong THEN right - wrong ELSE 0, size)

(* Credit for each two neighbours picked in the right sequence. *)
gradeOrder(q, chosen, partialCredit) ==
  LET n == Len(q.correctOrder)
      neighbours(seq) == {<<seq[i], seq[i + 1]>> : i \in 1..(Len(seq) - 1)}
  IN IF chosen = q.correctOrder THEN Full(q, TRUE)
     ELSE IF ~ partialCredit \/ n < 2 \/ Len(chosen) # n THEN Full(q, FALSE)
     ELSE Part(q, Cardinality(neighbours(chosen) \cap neighbours(q.correctOrder)), n - 1)

gradeQuestion(q, picks, partialCredit) ==
  LET chosen == ChosenOf(q, picks) IN
  CASE q.type \in {"SINGLE_CHOICE", "TRUE_FALSE"} ->
         Full(q, \E i \in DOMAIN q.options :
           /\ chosen = <<q.options[i]>> /\ q.options[i] \in q.correct
           /\ \A j \in 1..(i - 1) : q.options[j] \notin q.correct)
    [] q.type = "MULTIPLE_CHOICE" -> gradeChoices(q, chosen, partialCredit)
    [] q.type = "FILL_BLANK" -> Full(q, picks # <<>> /\ Head(picks) \in ToSet(q.options))
    [] q.type = "ORDERING" -> gradeOrder(q, chosen, partialCredit)

FirstOf(seq) == IF seq = <<>> THEN <<>> ELSE <<Head(seq)>>

(* readResponses: what is taken from the fields a form posts, before it is graded. *)
readResponse(q, values) ==
  LET known == ChosenOf(q, values) IN
  CASE q.type = "FILL_BLANK" -> FirstOf(values)
    [] q.type \in {"SINGLE_CHOICE", "TRUE_FALSE"} -> FirstOf(known)
    [] OTHER -> known

(* gradeAttempt: the score in percent, rounded; unanswered questions have earned nothing. *)
(* The division is in floating point, so what lies halfway may go either way.             *)
gradeAttempt(questions, responses, partialCredit, passingScore) ==
  LET points(seq) == FoldLeft(+, 0, seq)
      possible == points([i \in DOMAIN questions |-> questions[i].points])
      earned == points([i \in DOMAIN questions |->
        gradeQuestion(questions[i], responses[i], partialCredit).points])
      up == (2 * earned + possible) \div (2 * possible)
      halfway == 2 * possible * up = 2 * earned + possible
      scores == IF possible = 0 THEN {0} ELSE IF halfway THEN {up - 1, up} ELSE {up}
  IN {[score |-> score, passed |-> score >= passingScore] : score \in scores}

-----------------------------------------------------------------------------
(* Properties *)

(* The questions the properties are checked for, with what a form may post to    *)
(* them: options in any order, one of them twice, and one that is no option (0).  *)
QuestionOf(type, n, correct, p) ==
  [type |-> type, options |-> [i \in 1..n |-> i], correct |-> correct,
   correctOrder |-> [i \in 1..n |-> i], points |-> p]
Questions ==
  UNION {
    {QuestionOf(type, n, {o}, p) : type \in {"SINGLE_CHOICE", "TRUE_FALSE"}, o \in 1..n}
    \cup {QuestionOf("MULTIPLE_CHOICE", n, c, p) : c \in SUBSET (1..n) \ {{}}}
    \cup {QuestionOf("FILL_BLANK", n, 1..n, p), QuestionOf("ORDERING", n, {}, p)}
  : n \in 1..MaxOptions, p \in Points}

PicksOf(n) ==
  LET orders == UNION {Shuffles(SetToSeq(s)) : s \in SUBSET (1..n) \ {{}}}
  IN {<<>>} \cup orders \cup {Append(s, 0) : s \in orders} \cup {Append(s, s[1]) : s \in orders}

(* Two questions with two options. *)
Banks == {<<q, r>> : q, r \in {q \in Questions : Len(q.options) = 2 /\ q.points = CHOOSE p \in Points : TRUE}}

Moved(seq, i, j) == InsertAt(RemoveAt(seq, i), j, seq[i])

(* A grade does not depend on how the options were shuffled, and an ordering is   *)
(* never shown solved.  Rounding never makes a partly right answer a right one,   *)
(* and a wrong pick more never earns more.  Ticking every box earns nothing       *)
(* exactly when at most half of them are right ("earns nothing" says the comment  *)
(* of gradeQuestion).                                                             *)
QuestionsAreFair ==
  \A q \in Questions, partialCredit \in BOOLEAN :
    LET grade(question, picks) == gradeQuestion(question, picks, partialCredit)
        shown == {[q EXCEPT !.options = s] : s \in Shown(q, TRUE)}
    IN
    /\ \A picks \in PicksOf(Len(q.options)) :
         /\ grade(q, picks).points \in 0..(100 * q.points)
         /\ grade(q, picks).isCorrect <=> grade(q, picks).points = 100 * q.points
         /\ \A s \in shown : grade(s, picks) = grade(q, picks)
         /\ q.type = "MULTIPLE_CHOICE" => \A o \in ToSet(q.options) \ q.correct :
              grade(q, Append(picks, o)).points <= grade(q, picks).points
    /\ q.type = "ORDERING" /\ Len(q.options) > 1 => q.correctOrder \notin Shown(q, FALSE)
    /\ q.type = "MULTIPLE_CHOICE" /\ partialCredit =>
         (grade(q, q.options).points = 0 <=> 2 * Cardinality(q.correct) <= Len(q.options))

(* With partial credit, one item out of place costs the pair it leaves, the pair  *)
(* it had before it and the one it comes between, as far as there are such pairs: *)
(* three when it goes from one place inside the order to another ("a pair or two" *)
(* says the comment of gradeQuestion), two or one when an end of the order is     *)
(* involved, and never more, however long the order is.                           *)
MisplacingIsFair ==
  \A n \in 2..(MaxOptions + 2), p \in Points :
    LET q == QuestionOf("ORDERING", n, {}, p)
        one(condition) == IF condition THEN 1 ELSE 0
    IN \A i, j \in 1..n : i # j =>
         LET lost == one(i > 1) + one(i < n) + one(j \notin {1, n})
         IN gradeQuestion(q, Moved(q.options, i, j), TRUE).points = round2(p, n - 1 - lost, n - 1)

(* Whatever was drawn, every attempt has as many questions as any other, each once.  *)
(* What was saved and is posted again is graded as before, and a sheet on which all *)
(* is right scores 100, which no bound on the passing score can keep from passing.   *)
AttemptsAreFair ==
  \A bank \in Banks :
    /\ \A shuffled \in BOOLEAN, drawCount \in 0..2 :
         \A drawn \in Drawn(bank, drawCount, shuffled) :
           /\ Cardinality(ToSet(drawn)) = Len(drawn)
           /\ Len(drawn) = IF drawCount \in 1..Len(bank) THEN drawCount ELSE Len(bank)
    /\ \A partialCredit \in BOOLEAN, posted \in [DOMAIN bank -> PicksOf(2)] :
         LET score(responses) ==
               {result.score : result \in gradeAttempt(bank, responses, partialCredit, 100)}
             saved == [i \in DOMAIN bank |-> readResponse(bank[i], posted[i])]
         IN /\ score([i \in DOMAIN bank |-> readResponse(bank[i], saved[i])]) = score(saved)
            /\ (\A i \in DOMAIN bank : gradeQuestion(bank[i], saved[i], partialCredit).isCorrect)
                 => score(saved) = {100}
=============================================================================
