----------------------------- MODULE LexerProofs -----------------------------
(***************************************************************************)
(* For every source text: a statement is never empty and ends once, words  *)
(* and layout are all there is, and lines are statements.                  *)
(***************************************************************************)
EXTENDS Lexer, WellFoundedInduction, TLAPS

(* A function goes into any set that holds its values.                      *)
LEMMA Corestrict ==
  ASSUME NEW D, NEW S, NEW R, NEW f \in [D -> S], \A i \in D : f[i] \in R
  PROVE  f \in [D -> R]
OBVIOUS

(* A sequence is a function.                                                *)
LEMMA SequenceFacts ==
  ASSUME NEW S, NEW s \in Seq(S)
  PROVE  s \in [1 .. Len(s) -> S] /\ Len(s) \in Nat
OBVIOUS

(* Appending to a sequence: its old elements stay and one comes last.       *)
LEMMA AppendFacts ==
  ASSUME NEW s, s \in Seq({s[i] : i \in DOMAIN s}), NEW e
  PROVE  LET t == Append(s, e)
         IN /\ t \in Seq({t[i] : i \in DOMAIN t})
            /\ Len(t) = Len(s) + 1 /\ Len(s) \in Nat
            /\ DOMAIN s = 1 .. Len(s) /\ DOMAIN t = 1 .. Len(s) + 1
            /\ t[Len(t)] = e /\ t # <<>>
            /\ \A i \in 1 .. Len(s) : t[i] = s[i]
<1> DEFINE S == {s[i] : i \in DOMAIN s} \cup {e}
           t == Append(s, e)
<1>1. s \in Seq(S) OBVIOUS
<1>2. /\ Len(s) \in Nat /\ DOMAIN s = 1 .. Len(s) BY <1>1
<1>3. t \in Seq(S) /\ Len(t) = Len(s) + 1 BY <1>1
<1>4. DOMAIN t = 1 .. Len(s) + 1 BY <1>3, <1>2
<1>5. t[Len(s) + 1] = e /\ \A i \in 1 .. Len(s) : t[i] = s[i] BY <1>1, <1>2
<1>6. t # <<>>
  <2>1. Len(<<>>) = 0 OBVIOUS
  <2>2. Len(t) # 0 BY <1>3, <1>2
  <2> QED BY <2>1, <2>2
<1>7. t \in Seq({t[i] : i \in DOMAIN t})
  <2> DEFINE R == {t[i] : i \in DOMAIN t}
  <2>1. \A i \in 1 .. Len(t) : t[i] \in R BY <1>3, <1>4, <1>2
  <2>2. t \in [1 .. Len(t) -> S] /\ Len(t) \in Nat BY <1>3, SequenceFacts
  <2> HIDE DEF R, t, S
  <2>4. t \in [1 .. Len(t) -> R] BY <2>1, <2>2, Corestrict
  <2>5. t \in Seq(R) BY <2>2, <2>4
  <2> QED BY <2>5 DEF R
<1> QED BY <1>2, <1>3, <1>4, <1>5, <1>6, <1>7

(* One more word, wherever the lexer is in a statement.                     *)
LEMMA ReturnKeeps ==
  ASSUME StatementInv, mode = "lexing",
         NEW kind \in Words, NEW to, Return(kind, to)
  PROVE  StatementInv'
<1> DEFINE e == Token(kind, input, to)
<1>1. tokens' = Append(tokens, e) /\ hasStatement' = TRUE /\ mode' = mode BY DEF Return
<1>2. tokens \in Seq({tokens[i] : i \in DOMAIN tokens}) BY DEF StatementInv
<1>3. /\ tokens' \in Seq({tokens'[i] : i \in DOMAIN tokens'})
      /\ Len(tokens') = Len(tokens) + 1 /\ Len(tokens) \in Nat
      /\ DOMAIN tokens = 1 .. Len(tokens) /\ DOMAIN tokens' = 1 .. Len(tokens) + 1
      /\ tokens'[Len(tokens')] = e /\ tokens' # <<>>
      /\ \A i \in 1 .. Len(tokens) : tokens'[i] = tokens[i]
  BY <1>1, <1>2, AppendFacts
<1>4. e.kind \in Words BY DEF Token
<1>5. StatementsEndOnce'
  <2> SUFFICES ASSUME NEW i \in 1 .. Len(tokens) + 1
               PROVE  /\ tokens'[i].kind = "EndOfStmt" => i > 1 /\ tokens'[i - 1].kind \in Words
                      /\ tokens'[i].kind = "EndOfFile" => i = 1 \/ tokens'[i - 1].kind = "EndOfStmt"
    BY <1>3 DEF StatementsEndOnce
  <2>1. CASE i = Len(tokens) + 1 BY <2>1, <1>3, <1>4 DEF Words
  <2>2. CASE i \in 1 .. Len(tokens)
    <3>1. tokens'[i] = tokens[i] BY <2>2, <1>3
    <3>2. i \in DOMAIN tokens BY <2>2, <1>3
    <3>3. /\ tokens[i].kind = "EndOfStmt" => i > 1 /\ tokens[i - 1].kind \in Words
          /\ tokens[i].kind = "EndOfFile" => i = 1 \/ tokens[i - 1].kind = "EndOfStmt"
      BY <3>2 DEF StatementInv, StatementsEndOnce
    <3>4. CASE i = 1 BY <3>1, <3>3, <3>4
    <3>5. CASE i # 1
      <4>1. i - 1 \in 1 .. Len(tokens) BY <3>5, <2>2, <1>3
      <4>2. tokens'[i - 1] = tokens[i - 1] BY <4>1, <1>3
      <4> QED BY <3>1, <3>3, <3>5, <4>2
    <3> QED BY <3>4, <3>5
  <2> QED BY <2>1, <2>2, <1>3
<1> QED BY <1>1, <1>3, <1>4, <1>5 DEF StatementInv, LastKind

(* An EndOfStmt after a word, an EndOfFile after that.                      *)
LEMMA EndKeeps ==
  ASSUME StatementInv, mode = "lexing",
         NEW e, tokens' = Append(tokens, e), hasStatement' = FALSE,
         \/ hasStatement /\ e.kind = "EndOfStmt" /\ mode' = mode
         \/ ~hasStatement /\ e.kind = "EndOfFile" /\ mode' = "ended"
  PROVE  StatementInv'
<1>2. tokens \in Seq({tokens[i] : i \in DOMAIN tokens}) BY DEF StatementInv
<1>3. /\ tokens' \in Seq({tokens'[i] : i \in DOMAIN tokens'})
      /\ Len(tokens') = Len(tokens) + 1 /\ Len(tokens) \in Nat
      /\ DOMAIN tokens = 1 .. Len(tokens) /\ DOMAIN tokens' = 1 .. Len(tokens) + 1
      /\ tokens'[Len(tokens')] = e /\ tokens' # <<>>
      /\ \A i \in 1 .. Len(tokens) : tokens'[i] = tokens[i]
  BY <1>2, AppendFacts
<1>4. tokens # <<>> => Len(tokens) > 0 BY <1>2, <1>3
<1>5. StatementsEndOnce'
  <2> SUFFICES ASSUME NEW i \in 1 .. Len(tokens) + 1
               PROVE  /\ tokens'[i].kind = "EndOfStmt" => i > 1 /\ tokens'[i - 1].kind \in Words
                      /\ tokens'[i].kind = "EndOfFile" => i = 1 \/ tokens'[i - 1].kind = "EndOfStmt"
    BY <1>3 DEF StatementsEndOnce
  <2>1. CASE i = Len(tokens) + 1
    <3>1. tokens'[i] = e BY <2>1, <1>3
    <3>2. CASE tokens = <<>>
      <4>1. Len(tokens) = 0 BY <3>2
      <4> QED BY <3>1, <3>2, <4>1, <2>1 DEF StatementInv
    <3>3. CASE tokens # <<>>
      <4>0. i - 1 = Len(tokens) /\ i > 1 /\ Len(tokens) \in 1 .. Len(tokens)
        BY <3>3, <2>1, <1>3, <1>4
      <4>1. i - 1 = Len(tokens) /\ i > 1 /\ tokens'[i - 1] = tokens[Len(tokens)]
        BY <4>0, <1>3
      <4> QED BY <3>1, <3>3, <4>1 DEF StatementInv, LastKind
    <3> QED BY <3>2, <3>3
  <2>2. CASE i \in 1 .. Len(tokens)
    <3>1. tokens'[i] = tokens[i] BY <2>2, <1>3
    <3>2. i \in DOMAIN tokens BY <2>2, <1>3
    <3>3. /\ tokens[i].kind = "EndOfStmt" => i > 1 /\ tokens[i - 1].kind \in Words
          /\ tokens[i].kind = "EndOfFile" => i = 1 \/ tokens[i - 1].kind = "EndOfStmt"
      BY <3>2 DEF StatementInv, StatementsEndOnce
    <3>4. CASE i = 1 BY <3>1, <3>3, <3>4
    <3>5. CASE i # 1
      <4>1. i - 1 \in 1 .. Len(tokens) BY <3>5, <2>2, <1>3
      <4>2. tokens'[i - 1] = tokens[i - 1] BY <4>1, <1>3
      <4> QED BY <3>1, <3>3, <3>5, <4>2
    <3> QED BY <3>4, <3>5
  <2> QED BY <2>1, <2>2, <1>3
<1>6. e.kind \notin Words BY DEF Words
<1> QED BY <1>3, <1>5, <1>6 DEF StatementInv, LastKind

(* A step that returns nothing and does not end the file.                   *)
LEMMA QuietKeeps ==
  ASSUME StatementInv, UNCHANGED <<hasStatement, tokens>>,
         mode = "lexing", mode' \in {"lexing", "failed"}
  PROVE  StatementInv'
BY DEF StatementInv, StatementsEndOnce, LastKind

(* Before the first token there is no statement.                            *)
LEMMA InitStatement == Init => StatementInv
<1> SUFFICES ASSUME Init PROVE StatementInv OBVIOUS
<1>1. tokens = <<>> /\ hasStatement = FALSE BY DEF Init
<1>2. DOMAIN tokens = {} BY <1>1
<1>3. tokens \in Seq({tokens[i] : i \in DOMAIN tokens}) BY <1>1
<1>4. hasStatement \in BOOLEAN BY <1>1
<1> QED BY <1>1, <1>2, <1>3, <1>4 DEF StatementInv, StatementsEndOnce

(* Every branch of next() keeps the invariant.                              *)
LEMMA NextStatement == StatementInv /\ [Next]_vars => StatementInv'
<1> SUFFICES ASSUME StatementInv, [Next]_vars PROVE StatementInv' OBVIOUS
<1>0. CASE UNCHANGED vars
  BY <1>0 DEF vars, StatementInv, StatementsEndOnce, LastKind
<1>1. CASE EndOfFile
  <2>1. mode = "lexing" BY <1>1 DEF EndOfFile, Lexing
  <2>2. CASE hasStatement
    <3>1. /\ tokens' = Append(tokens, Token("EndOfStmt", start', input'))
          /\ hasStatement' = FALSE /\ mode' = mode
      BY <1>1, <2>2 DEF EndOfFile, EndOfStmt
    <3>2. Token("EndOfStmt", start', input').kind = "EndOfStmt" BY DEF Token
    <3> QED BY <2>1, <2>2, <3>1, <3>2, EndKeeps
  <2>3. CASE ~hasStatement
    <3>1. /\ tokens' = Append(tokens, Token("EndOfFile", start, input))
          /\ hasStatement' = hasStatement /\ mode' = "ended"
      BY <1>1, <2>3 DEF EndOfFile
    <3>2. Token("EndOfFile", start, input).kind = "EndOfFile" BY DEF Token
    <3>3. hasStatement' = FALSE BY <2>3, <3>1 DEF StatementInv
    <3> QED BY <2>1, <2>3, <3>1, <3>2, <3>3, EndKeeps
  <2> QED BY <2>2, <2>3
<1>2. CASE LineEnd
  <2>1. mode = "lexing" /\ mode' = mode BY <1>2 DEF LineEnd, Lexing
  <2>2. CASE hasStatement
    <3>1. /\ tokens' = Append(tokens, Token("EndOfStmt", start', input'))
          /\ hasStatement' = FALSE
      BY <1>2, <2>2 DEF LineEnd, EndOfStmt
    <3>2. Token("EndOfStmt", start', input').kind = "EndOfStmt" BY DEF Token
    <3> QED BY <2>1, <2>2, <3>1, <3>2, EndKeeps
  <2>3. CASE ~hasStatement
    BY <1>2, <2>1, <2>3, QuietKeeps DEF LineEnd
  <2> QED BY <2>2, <2>3
<1>3. CASE Blank BY <1>3, QuietKeeps DEF Blank, SkipTo, Lexing
<1>4. CASE LineComment BY <1>4, QuietKeeps DEF LineComment, SkipTo, Lexing
<1>5. CASE Slash
  <2>1. mode = "lexing" BY <1>5 DEF Slash, Lexing
  <2>2. CASE LookAhead = "'" BY <1>5, <2>1, <2>2, QuietKeeps DEF Slash, SkipTo
  <2>3. CASE LookAhead # "'" BY <1>5, <2>1, <2>3, ReturnKeeps DEF Slash, Words
  <2> QED BY <2>2, <2>3
<1>6. CASE Underscore
  <2>1. mode = "lexing" BY <1>6 DEF Underscore, Lexing
  <2>2. CASE LookAhead \in IdentifierChars
    BY <1>6, <2>1, <2>2, ReturnKeeps DEF Underscore, Words
  <2>3. CASE LookAhead \notin IdentifierChars
    BY <1>6, <2>1, <2>3, QuietKeeps DEF Underscore, SkipTo
  <2> QED BY <2>2, <2>3
<1>7. CASE Identifier BY <1>7, ReturnKeeps DEF Identifier, Lexing, Words
<1>8. CASE Operator BY <1>8, ReturnKeeps DEF Operator, Lexing, Words
<1>9. ASSUME Number, mode = "lexing" PROVE StatementInv'
  <2>1. \/ \E end : Return("Number", end)
        \/ Error("invalidNumber")
    BY <1>9 DEF Number
  <2>2. ASSUME NEW end, Return("Number", end) PROVE StatementInv'
    BY <1>9, <2>2, ReturnKeeps DEF Words
  <2>3. CASE Error("invalidNumber") BY <1>9, <2>3, QuietKeeps DEF Error
  <2> QED BY <2>1, <2>2, <2>3
<1>10. CASE Digit BY <1>9, <1>10 DEF Digit, Lexing
<1>11. CASE Dot
  <2>1. mode = "lexing" BY <1>11 DEF Dot, Lexing
  <2>2. CASE LookAhead = "." /\ At(input + 2) = "."
    <3>1. Return("Operator", input + 3) BY <1>11, <2>2 DEF Dot
    <3> QED BY <2>1, <3>1, ReturnKeeps DEF Words
  <2>3. CASE LookAhead = "." /\ At(input + 2) # "."
    <3>1. Error("invalid") BY <1>11, <2>3 DEF Dot
    <3> QED BY <2>1, <3>1, QuietKeeps DEF Error
  <2>4. CASE LookAhead = "1"
    <3>1. Number BY <1>11, <2>4 DEF Dot
    <3> QED BY <2>1, <3>1, <1>9
  <2>5. CASE LookAhead \notin {".", "1"}
    <3>1. Return("Operator", input + 1) BY <1>11, <2>5 DEF Dot
    <3> QED BY <2>1, <3>1, ReturnKeeps DEF Words
  <2> QED BY <2>2, <2>3, <2>4, <2>5
<1>12. CASE String
  <2>1. mode = "lexing" /\ \E to : Return("String", to) BY <1>12 DEF String, Lexing
  <2> QED BY <2>1, ReturnKeeps DEF Words
<1>13. CASE Other BY <1>13, QuietKeeps DEF Other, Error, Lexing
<1>14. CASE Finished BY <1>14, <1>0 DEF Finished
<1> QED
  BY <1>0, <1>1, <1>2, <1>3, <1>4, <1>5, <1>6, <1>7, <1>8, <1>10, <1>11, <1>12, <1>13, <1>14
  DEF Next

(* Whatever the text, its statements are never empty, end once, and the end *)
(* of the file comes after the end of a statement (Lexer::next, endOfStmt). *)
THEOREM StatementsEndOnceHolds == Spec => []StatementsEndOnce
<1>1. StatementInv => StatementsEndOnce BY DEF StatementInv
<1> QED BY InitStatement, NextStatement, <1>1, PTL DEF Spec

-----------------------------------------------------------------------------
(* Nothing is lost, and lines are statements.  First, that the recursive     *)
(* functions of Lexer exist: each at a position asks only for later ones.   *)

(* Some element of a set of numbers is the least.                           *)
LEMMA LeastExists ==
  ASSUME NEW S, S \subseteq Nat, S # {}
  PROVE  \E i \in S : \A j \in S : i <= j
<1> DEFINE Less == {ss \in Nat \X Nat : ss[1] < ss[2]}
<1>1. IsWellFoundedOn(Less, Nat)
  BY NatLessThanWellFounded DEF OpToRel
<1>2. PICK i \in S : \A j \in S : <<j, i>> \notin Less
  <2> HIDE DEF Less
  <2>1. QED
    BY <1>1, WFMin
<1>3. ASSUME NEW j \in S PROVE i <= j
  <2>1. CASE j < i
    <3>1. <<j, i>> \in Less
      BY <2>1
    <3>2. QED
      BY <3>1, <1>2
  <2>2. QED
    BY <2>1
<1>4. QED
  BY <1>3

(* Induction from the end of a text back, as a fact about a set of positions. *)
LEMMA Backward ==
  ASSUME NEW N \in Nat, NEW S,
         \A p \in 1 .. N : (\A q \in p + 1 .. N : q \in S) => p \in S
  PROVE  \A p \in 1 .. N : p \in S
<1> DEFINE left == {N - p : p \in 1 .. N \ S}
<1>1. CASE left # {}
  <2>1. left \subseteq Nat
    OBVIOUS
  <2>2. PICK n \in left : \A j \in left : n <= j
    <3> HIDE DEF left
    <3>1. QED
      BY <1>1, <2>1, LeastExists
  <2>3. PICK p \in 1 .. N \ S : n = N - p
    BY <2>2
  <2>4. ASSUME NEW q \in p + 1 .. N, q \notin S PROVE FALSE
    <3>1. N - q \in left /\ N - q < n
      BY <2>3, <2>4
    <3>2. n <= N - q
      <4> HIDE DEF left
      <4>1. QED
        BY <3>1, <2>2
    <3>3. n = N - p /\ N \in Nat /\ p \in Nat /\ q \in Nat /\ p < q
      BY <2>3, <2>4
    <3>4. QED
      BY <3>2, <3>3
  <2>5. QED
    BY <2>3, <2>4
<1>2. QED
  BY <1>1

(* Sources are read up to a NUL, which no text holds.                        *)
Reads == text \in Seq(STRING \ {"NUL"})

(* At: past the end and only there is a NUL.                                 *)
LEMMA EndFacts ==
  ASSUME Reads
  PROVE  /\ End \in Nat /\ End >= 1 /\ At(End) = "NUL"
         /\ \A p \in 1 .. End : At(p) = "NUL" <=> p = End
         /\ \A p \in 1 .. End : At(p) # "NUL" => p + 1 \in p + 1 .. End
         /\ \A p \in 1 .. End : At(p) # "NUL" /\ At(p + 1) # "NUL" => p + 2 \in p + 1 .. End
<1>1. Len(text) \in Nat /\ \A i \in 1 .. Len(text) : text[i] # "NUL"
  BY DEF Reads
<1>2. QED
  BY <1>1 DEF At, End

(* There is a first character of some kind, at the latest the NUL.             *)
LEMMA StopExists ==
  ASSUME Reads, NEW S, NEW p \in 1 .. End, "NUL" \in S
  PROVE  \E q \in p .. End : At(q) \in S /\ \A r \in p .. q - 1 : At(r) \notin S
<1> DEFINE stops == {q \in p .. End : At(q) \in S}
<1>1. End \in Nat /\ At(End) = "NUL" /\ p \in Nat
  BY EndFacts
<1>2. stops \subseteq Nat /\ End \in stops
  BY <1>1
<1>3. PICK q \in stops : \A j \in stops : q <= j
  <2> HIDE DEF stops
  <2>1. QED
    BY <1>2, LeastExists
<1>4. QED
  BY <1>1, <1>3

(* advanceWhileNot stops at the first character it looks for.                *)
LEMMA UptoFacts ==
  ASSUME Reads, NEW S, NEW p \in 1 .. End, "NUL" \in S
  PROVE  /\ Upto(S, p) \in p .. End /\ At(Upto(S, p)) \in S
         /\ \A r \in p .. Upto(S, p) - 1 : At(r) \notin S
BY StopExists DEF Upto

(* advanceWhile stops within the text.                                      *)
LEMMA AfterFacts ==
  ASSUME Reads, NEW S, NEW p \in 1 .. End, "NUL" \notin S
  PROVE  After(S, p) \in p .. End
<1> DEFINE T == {At(q) : q \in p .. End} \ S
<1>1. End \in Nat /\ At(End) = "NUL" /\ p \in Nat
  BY EndFacts
<1>2. "NUL" \in T
  <2>1. End \in p .. End
    BY <1>1
  <2>2. QED
    BY <1>1, <2>1
<1>3. PICK q \in p .. End : At(q) \in T /\ \A r \in p .. q - 1 : At(r) \notin T
  <2> HIDE DEF T
  <2>1. QED
    BY <1>2, StopExists
<1>4. At(q) \notin S /\ \A r \in p .. q - 1 : At(r) \in S
  <2>1. ASSUME NEW r \in p .. q - 1 PROVE r \in p .. End
    BY <1>1
  <2>2. QED
    BY <1>3, <2>1
<1>5. QED
  BY <1>4 DEF After

(* A line end is one character or two.                                      *)
LEMMA LineEndFacts ==
  ASSUME Reads, NEW p \in 1 .. End
  PROVE  /\ AfterLineEnd(p) \in p .. End
         /\ At(p) \in LineEnds => AfterLineEnd(p) \in p + 1 .. End
<1>1. CASE At(p) = "NUL"
  BY <1>1, EndFacts DEF AfterLineEnd, LineEnds
<1>2. CASE At(p) = "CR" /\ At(p + 1) = "NL"
  <2>1. p + 2 \in p + 1 .. End
    BY <1>2, EndFacts
  <2>2. AfterLineEnd(p) = p + 2
    BY <1>2 DEF AfterLineEnd
  <2>3. QED
    BY <2>1, <2>2, EndFacts
<1>3. CASE At(p) # "NUL" /\ ~(At(p) = "CR" /\ At(p + 1) = "NL")
  <2>1. p + 1 \in p + 1 .. End
    BY <1>3, EndFacts
  <2>2. AfterLineEnd(p) = p + 1
    BY <1>3 DEF AfterLineEnd
  <2>3. QED
    BY <2>1, <2>2, EndFacts
<1>4. QED
  BY <1>1, <1>2, <1>3

-----------------------------------------------------------------------------
(* Block comments.                                                          *)

RestAt(f, p) ==
  CASE p = End -> {End}
    [] At(p) = "'" /\ At(p + 1) = "/" -> {p + 2}
    [] At(p) = "/" /\ At(p + 1) = "'" -> UNION {f[q] : q \in f[p + 2]}
    [] OTHER -> f[p + 1]
IsRest(f, b) == f = [p \in b .. End |-> RestAt(f, p)]

(* What RestAt is, by the characters at hand.                                *)
LEMMA RestCases ==
  ASSUME Reads, NEW f, NEW p \in 1 .. End
  PROVE  \/ p = End /\ RestAt(f, p) = {End}
         \/ p # End /\ p + 1 \in 1 .. End /\ p + 2 \in 1 .. End
            /\ At(p) = "'" /\ At(p + 1) = "/" /\ RestAt(f, p) = {p + 2}
         \/ p # End /\ p + 1 \in 1 .. End /\ p + 2 \in 1 .. End
            /\ At(p) = "/" /\ At(p + 1) = "'" /\ RestAt(f, p) = UNION {f[q] : q \in f[p + 2]}
         \/ p # End /\ p + 1 \in 1 .. End
            /\ <<At(p), At(p + 1)>> \notin {<<"'", "/">>, <<"/", "'">>} /\ RestAt(f, p) = f[p + 1]
<1>1. /\ End \in Nat /\ At(End) = "NUL" /\ (At(p) = "NUL" <=> p = End)
      /\ (At(p) # "NUL" => p + 1 \in p + 1 .. End)
      /\ (At(p) # "NUL" /\ At(p + 1) # "NUL" => p + 2 \in p + 1 .. End)
  BY EndFacts
<1>2. CASE p = End
  BY <1>1, <1>2 DEF RestAt
<1>3. CASE p # End /\ At(p) = "'" /\ At(p + 1) = "/"
  BY <1>1, <1>3 DEF RestAt
<1>4. CASE p # End /\ At(p) = "/" /\ At(p + 1) = "'"
  BY <1>1, <1>4 DEF RestAt
<1>5. CASE p # End /\ <<At(p), At(p + 1)>> \notin {<<"'", "/">>, <<"/", "'">>}
  BY <1>1, <1>5 DEF RestAt
<1>6. QED
  BY <1>2, <1>3, <1>4, <1>5

(* A comment has one end, which is not before its beginning.                 *)
LEMMA RestIsOne ==
  ASSUME Reads, NEW b \in 1 .. End + 1, NEW f, IsRest(f, b)
  PROVE  \A p \in b .. End : \E r \in p .. End : f[p] = {r}
<1> DEFINE S == {p \in Nat : p >= b => \E r \in p .. End : f[p] = {r}}
<1>1. End \in Nat /\ b \in Nat /\ b >= 1
  BY EndFacts
<1>2. ASSUME NEW p \in 1 .. End, \A q \in p + 1 .. End : q \in S, p >= b
      PROVE  \E r \in p .. End : f[p] = {r}
  <2>1. f[p] = RestAt(f, p)
    BY <1>1, <1>2 DEF IsRest
  <2>2. ASSUME NEW q \in p + 1 .. End PROVE \E r \in q .. End : f[q] = {r}
    BY <1>1, <1>2, <2>2
  <2>3. CASE p = End
    BY <1>1, <2>1, <2>3, RestCases
  <2>4. CASE p # End /\ p + 1 \in 1 .. End /\ p + 2 \in 1 .. End
             /\ At(p) = "'" /\ At(p + 1) = "/" /\ RestAt(f, p) = {p + 2}
    BY <1>1, <2>1, <2>4
  <2>5. CASE p # End /\ p + 1 \in 1 .. End /\ p + 2 \in 1 .. End
             /\ At(p) = "/" /\ At(p + 1) = "'" /\ RestAt(f, p) = UNION {f[q] : q \in f[p + 2]}
    <3>1. PICK r \in p + 2 .. End : f[p + 2] = {r}
      BY <1>1, <2>2, <2>5
    <3>2. PICK t \in r .. End : f[r] = {t}
      BY <1>1, <2>2, <3>1
    <3>3. f[p] = {t}
      BY <2>1, <2>5, <3>1, <3>2
    <3>4. t \in p .. End
      BY <1>1, <3>1, <3>2
    <3>5. QED
      BY <3>3, <3>4
  <2>6. CASE p # End /\ p + 1 \in 1 .. End
             /\ <<At(p), At(p + 1)>> \notin {<<"'", "/">>, <<"/", "'">>} /\ RestAt(f, p) = f[p + 1]
    <3>1. PICK r \in p + 1 .. End : f[p + 1] = {r}
      BY <1>1, <2>2, <2>6
    <3>2. QED
      BY <1>1, <2>1, <2>6, <3>1
  <2>7. QED
    BY <2>3, <2>4, <2>5, <2>6, RestCases
<1>3. \A p \in 1 .. End : (\A q \in p + 1 .. End : q \in S) => p \in S
  BY <1>2
<1>4. \A p \in 1 .. End : p \in S
  <2> HIDE DEF S
  <2>1. QED
    BY <1>1, <1>3, Backward
<1>5. QED
  BY <1>1, <1>4

(* It depends on what follows only.                                          *)
LEMMA RestAgrees ==
  ASSUME Reads, NEW f, NEW g, NEW p \in 1 .. End,
         \A q \in p + 1 .. End : f[q] = g[q] /\ \E r \in q .. End : f[q] = {r}
  PROVE  RestAt(f, p) = RestAt(g, p)
<1>1. End \in Nat
  BY EndFacts
<1>2. \A q \in p + 1 .. End : \E r \in q .. End : f[q] = {r}
  OBVIOUS
<1>3. CASE p = End
  BY <1>3, RestCases
<1>4. CASE p # End /\ At(p) = "/" /\ At(p + 1) = "'"
  <2>1. /\ p + 2 \in p + 1 .. End
        /\ RestAt(f, p) = UNION {f[q] : q \in f[p + 2]} /\ RestAt(g, p) = UNION {g[q] : q \in g[p + 2]}
    BY <1>1, <1>4, RestCases
  <2>2. PICK r \in p + 2 .. End : f[p + 2] = {r}
    BY <1>2, <2>1
  <2>3. f[r] = g[r] /\ g[p + 2] = {r}
    BY <1>1, <2>1, <2>2
  <2>4. QED
    BY <2>1, <2>2, <2>3
<1>5. CASE p # End /\ ~(At(p) = "/" /\ At(p + 1) = "'")
  <2>1. p + 1 \in p + 1 .. End
    BY <1>1, <1>5
  <2>2. f[p + 1] = g[p + 1]
    BY <2>1
  <2>3. QED
    BY <1>5, <2>2, RestCases
<1>6. QED
  BY <1>3, <1>4, <1>5

(* The functions CommentRest could be, from a position on.                    *)
LEMMA RestExists ==
  ASSUME Reads
  PROVE  \A b \in 1 .. End : \E f : IsRest(f, b)
<1> DEFINE S == {b \in 1 .. End : \E f : IsRest(f, b)}
<1>1. End \in Nat
  BY EndFacts
<1>2. ASSUME NEW b \in 1 .. End, \A q \in b + 1 .. End : q \in S
      PROVE  b \in S
  <2>1. \E f : IsRest(f, b + 1)
    <3>1. CASE b = End
      <4> DEFINE h == [p \in {} |-> p]
      <4>1. b + 1 .. End = {}
        BY <1>1, <3>1
      <4>2. h = [p \in b + 1 .. End |-> RestAt(h, p)]
        BY <4>1
      <4>3. QED
        BY <4>2 DEF IsRest
    <3>2. CASE b # End
      BY <1>1, <1>2, <3>2
    <3>3. QED
      BY <3>1, <3>2
  <2>2. PICK f : IsRest(f, b + 1)
    BY <2>1
  <2> DEFINE g == [p \in b .. End |-> RestAt(f, p)]
  <2>3. \A q \in b + 1 .. End : f[q] = RestAt(f, q) /\ g[q] = RestAt(f, q)
    BY <1>1, <2>2 DEF IsRest
  <2>4. ASSUME NEW p \in b .. End PROVE RestAt(f, p) = RestAt(g, p)
    <3>1. p \in 1 .. End /\ \A q \in p + 1 .. End : f[q] = g[q]
      BY <1>1, <2>3
    <3> HIDE DEF g
    <3>2. \A q \in p + 1 .. End : \E r \in q .. End : f[q] = {r}
      <4>1. b + 1 \in 1 .. End + 1
        BY <1>1
      <4>2. \A q \in b + 1 .. End : \E r \in q .. End : f[q] = {r}
        BY <2>2, <4>1, RestIsOne
      <4>3. QED
        BY <1>1, <4>2
    <3>3. QED
      BY <3>1, <3>2, RestAgrees
  <2>5. g = [p \in b .. End |-> RestAt(g, p)]
    BY <2>4
  <2> HIDE DEF g
  <2>6. QED
    BY <2>5 DEF IsRest
<1>3. \A b \in 1 .. End : b \in S
  <2> HIDE DEF S
  <2>1. QED
    BY <1>1, <1>2, Backward
<1>4. QED
  BY <1>3

(* CommentRest is defined, and has one end for each beginning.               *)
LEMMA CommentRestFacts ==
  ASSUME Reads
  PROVE  /\ IsRest(CommentRest, 1)
         /\ \A p \in 1 .. End : \E r \in p .. End : CommentRest[p] = {r}
<1>1. End \in Nat /\ 1 \in 1 .. End /\ 1 \in 1 .. End + 1
  BY EndFacts
<1>2. \E f : IsRest(f, 1)
  BY <1>1, RestExists
<1>3. IsRest(CommentRest, 1)
  BY <1>2 DEF IsRest, RestAt, CommentRest
<1>4. QED
  BY <1>1, <1>3, RestIsOne

(* skipMultiLineComment counts how deep it is.                               *)
DepthAt(f, p) ==
  [level \in 0 .. p |->
    CASE level = 0 \/ At(p) = "NUL" -> p
      [] level > 0 /\ At(p) = "'" /\ At(p + 1) = "/" -> f[p + 2][level - 1]
      [] level > 0 /\ At(p) = "/" /\ At(p + 1) = "'" -> f[p + 2][level + 1]
      [] OTHER -> f[p + 1][level]]
IsDepths(f, b) == f = [p \in b .. End |-> DepthAt(f, p)]

(* What DepthAt is, by the characters at hand.                                *)
LEMMA DepthCases ==
  ASSUME Reads, NEW f, NEW p \in 1 .. End, NEW level \in 0 .. p
  PROVE  \/ (level = 0 \/ p = End) /\ DepthAt(f, p)[level] = p
         \/ level > 0 /\ p # End /\ p + 1 \in 1 .. End /\ p + 2 \in 1 .. End
            /\ At(p) = "'" /\ At(p + 1) = "/" /\ DepthAt(f, p)[level] = f[p + 2][level - 1]
         \/ level > 0 /\ p # End /\ p + 1 \in 1 .. End /\ p + 2 \in 1 .. End
            /\ At(p) = "/" /\ At(p + 1) = "'" /\ DepthAt(f, p)[level] = f[p + 2][level + 1]
         \/ level > 0 /\ p # End /\ p + 1 \in 1 .. End
            /\ <<At(p), At(p + 1)>> \notin {<<"'", "/">>, <<"/", "'">>}
            /\ DepthAt(f, p)[level] = f[p + 1][level]
<1>1. /\ End \in Nat /\ At(End) = "NUL" /\ (At(p) = "NUL" <=> p = End)
      /\ (At(p) # "NUL" => p + 1 \in p + 1 .. End)
      /\ (At(p) # "NUL" /\ At(p + 1) # "NUL" => p + 2 \in p + 1 .. End)
  BY EndFacts
<1>2. CASE level = 0 \/ p = End
  BY <1>1, <1>2 DEF DepthAt
<1>3. CASE level > 0 /\ p # End /\ At(p) = "'" /\ At(p + 1) = "/"
  BY <1>1, <1>3 DEF DepthAt
<1>4. CASE level > 0 /\ p # End /\ At(p) = "/" /\ At(p + 1) = "'"
  BY <1>1, <1>4 DEF DepthAt
<1>5. CASE level > 0 /\ p # End /\ <<At(p), At(p + 1)>> \notin {<<"'", "/">>, <<"/", "'">>}
  BY <1>1, <1>5 DEF DepthAt
<1>6. QED
  BY <1>1, <1>2, <1>3, <1>4, <1>5

(* It depends on what follows only.                                          *)
LEMMA DepthAgrees ==
  ASSUME Reads, NEW f, NEW g, NEW p \in 1 .. End, \A q \in p + 1 .. End : f[q] = g[q]
  PROVE  DepthAt(f, p) = DepthAt(g, p)
<1>1. /\ End \in Nat /\ At(End) = "NUL" /\ (At(p) = "NUL" <=> p = End)
      /\ (At(p) # "NUL" => p + 1 \in p + 1 .. End)
      /\ (At(p) # "NUL" /\ At(p + 1) # "NUL" => p + 2 \in p + 1 .. End)
  BY EndFacts
<1>2. ASSUME NEW level \in 0 .. p PROVE DepthAt(f, p)[level] = DepthAt(g, p)[level]
  <2>1. CASE level = 0 \/ p = End
    BY <1>1, <2>1 DEF DepthAt
  <2>2. CASE level > 0 /\ p # End /\ At(p) = "'" /\ At(p + 1) = "/"
    <3>1. f[p + 2] = g[p + 2]
      BY <1>1, <2>2
    <3>2. QED
      BY <1>1, <2>2, <3>1 DEF DepthAt
  <2>3. CASE level > 0 /\ p # End /\ At(p) = "/" /\ At(p + 1) = "'"
    <3>1. f[p + 2] = g[p + 2]
      BY <1>1, <2>3
    <3>2. QED
      BY <1>1, <2>3, <3>1 DEF DepthAt
  <2>4. CASE level > 0 /\ p # End /\ <<At(p), At(p + 1)>> \notin {<<"'", "/">>, <<"/", "'">>}
    <3>1. f[p + 1] = g[p + 1]
      BY <1>1, <2>4
    <3>2. QED
      BY <1>1, <2>4, <3>1 DEF DepthAt
  <2>5. QED
    BY <1>1, <2>1, <2>2, <2>3, <2>4
<1>3. DOMAIN DepthAt(f, p) = 0 .. p /\ DOMAIN DepthAt(g, p) = 0 .. p
  BY DEF DepthAt
<1>4. DepthAt(f, p) = [level \in 0 .. p |-> DepthAt(f, p)[level]]
  BY DEF DepthAt
<1>5. DepthAt(g, p) = [level \in 0 .. p |-> DepthAt(g, p)[level]]
  BY DEF DepthAt
<1>6. QED
  BY <1>2, <1>4, <1>5

(* The functions CommentEnd could go by, from a position on.                  *)
LEMMA DepthsExist ==
  ASSUME Reads
  PROVE  \A b \in 1 .. End : \E f : IsDepths(f, b)
<1> DEFINE S == {b \in 1 .. End : \E f : IsDepths(f, b)}
<1>1. End \in Nat
  BY EndFacts
<1>2. ASSUME NEW b \in 1 .. End, \A q \in b + 1 .. End : q \in S
      PROVE  b \in S
  <2>1. \E f : IsDepths(f, b + 1)
    <3>1. CASE b = End
      <4> DEFINE h == [p \in {} |-> p]
      <4>1. b + 1 .. End = {}
        BY <1>1, <3>1
      <4>2. h = [p \in b + 1 .. End |-> DepthAt(h, p)]
        BY <4>1
      <4>3. QED
        BY <4>2 DEF IsDepths
    <3>2. CASE b # End
      BY <1>1, <1>2, <3>2
    <3>3. QED
      BY <3>1, <3>2
  <2>2. PICK f : IsDepths(f, b + 1)
    BY <2>1
  <2> DEFINE g == [p \in b .. End |-> DepthAt(f, p)]
  <2>3. \A q \in b + 1 .. End : f[q] = DepthAt(f, q) /\ g[q] = DepthAt(f, q)
    BY <1>1, <2>2 DEF IsDepths
  <2>4. ASSUME NEW p \in b .. End PROVE DepthAt(f, p) = DepthAt(g, p)
    <3>1. p \in 1 .. End /\ \A q \in p + 1 .. End : f[q] = g[q]
      BY <1>1, <2>3
    <3> HIDE DEF g
    <3>2. QED
      BY <3>1, DepthAgrees
  <2>5. g = [p \in b .. End |-> DepthAt(g, p)]
    BY <2>4
  <2> HIDE DEF g
  <2>6. QED
    BY <2>5 DEF IsDepths
<1>3. \A b \in 1 .. End : b \in S
  <2> HIDE DEF S
  <2>1. QED
    BY <1>1, <1>2, Backward
<1>4. QED
  BY <1>3

(* Counting down one level ends where the grammar says that a comment ends.   *)
LEMMA DepthIsRest ==
  ASSUME Reads, NEW b \in 1 .. End, NEW f, IsDepths(f, b)
  PROVE  \A p \in b .. End : \A k \in 1 .. p :
           \E r \in p .. End : r \in CommentRest[p] /\ f[p][k] = f[r][k - 1]
<1> DEFINE Fits(p) == \A k \in 1 .. p : \E r \in p .. End : r \in CommentRest[p] /\ f[p][k] = f[r][k - 1]
           S == {p \in Nat : p >= b => Fits(p)}
<1>1. End \in Nat /\ b \in Nat /\ b >= 1
  BY EndFacts
<1>2. ASSUME NEW p \in 1 .. End, \A q \in p + 1 .. End : q \in S, p >= b
      PROVE  Fits(p)
  <2>1. f[p] = DepthAt(f, p) /\ CommentRest[p] = RestAt(CommentRest, p)
    <3>1. f[p] = DepthAt(f, p)
      BY <1>1, <1>2 DEF IsDepths
    <3>2. IsRest(CommentRest, 1)
      BY CommentRestFacts
    <3>3. CommentRest[p] = RestAt(CommentRest, p)
      BY <1>1, <3>2 DEF IsRest
    <3>4. QED
      BY <3>1, <3>3
  <2>2. ASSUME NEW q \in p + 1 .. End PROVE Fits(q)
    BY <1>1, <1>2, <2>2
  <2>3. SUFFICES ASSUME NEW k \in 1 .. p
                 PROVE  \E r \in p .. End : r \in CommentRest[p] /\ f[p][k] = f[r][k - 1]
    OBVIOUS
  <2>4. k \in 0 .. p /\ k > 0 /\ k - 1 \in 0 .. p
    OBVIOUS
  <2>5. CASE p = End
    <3>1. CommentRest[p] = {p}
      BY <2>1, <2>5, RestCases
    <3>2. f[p][k] = p /\ f[p][k - 1] = p
      BY <2>1, <2>4, <2>5, DepthCases
    <3>3. QED
      BY <1>1, <2>5, <3>1, <3>2
  <2>6. CASE p # End /\ At(p) = "'" /\ At(p + 1) = "/"
    <3>1. p + 2 \in p .. End /\ CommentRest[p] = {p + 2}
      BY <1>1, <2>1, <2>6, RestCases
    <3>2. f[p][k] = f[p + 2][k - 1]
      BY <2>1, <2>4, <2>6, DepthCases
    <3>3. QED
      BY <3>1, <3>2
  <2>7. CASE p # End /\ At(p) = "/" /\ At(p + 1) = "'"
    <3>1. p + 2 \in 1 .. End /\ CommentRest[p] = UNION {CommentRest[q] : q \in CommentRest[p + 2]}
      BY <2>1, <2>7, RestCases
    <3>2. f[p][k] = f[p + 2][k + 1]
      BY <2>1, <2>4, <2>7, DepthCases
    <3>3. p + 2 \in p + 1 .. End /\ k + 1 \in 1 .. p + 2
      BY <1>1, <3>1
    <3>0. Fits(p + 2)
      BY <2>2, <3>3
    <3>4. PICK q \in p + 2 .. End : q \in CommentRest[p + 2] /\ f[p + 2][k + 1] = f[q][k + 1 - 1]
      BY <3>0, <3>3
    <3>5. q \in p + 1 .. End /\ k \in 1 .. q /\ k + 1 - 1 = k
      BY <1>1, <3>1, <3>4
    <3>6. PICK r \in q .. End : r \in CommentRest[q] /\ f[q][k] = f[r][k - 1]
      BY <2>2, <3>5
    <3>7. r \in p .. End /\ r \in CommentRest[p]
      BY <1>1, <3>1, <3>4, <3>5, <3>6
    <3>8. f[p][k] = f[r][k - 1]
      BY <3>2, <3>4, <3>5, <3>6
    <3>9. QED
      BY <3>7, <3>8
  <2>8. CASE p # End /\ <<At(p), At(p + 1)>> \notin {<<"'", "/">>, <<"/", "'">>}
    <3>1. p + 1 \in 1 .. End /\ CommentRest[p] = CommentRest[p + 1]
      BY <2>1, <2>8, RestCases
    <3>2. f[p][k] = f[p + 1][k]
      BY <2>1, <2>4, <2>8, DepthCases
    <3>3. p + 1 \in p + 1 .. End /\ k \in 1 .. p + 1
      BY <1>1, <3>1
    <3>4. PICK r \in p + 1 .. End : r \in CommentRest[p + 1] /\ f[p + 1][k] = f[r][k - 1]
      BY <2>2, <3>3
    <3>5. r \in p .. End
      BY <1>1, <3>4
    <3>6. QED
      BY <3>1, <3>2, <3>4, <3>5
  <2>9. QED
    BY <2>5, <2>6, <2>7, <2>8
<1>3. \A p \in 1 .. End : (\A q \in p + 1 .. End : q \in S) => p \in S
  <2> HIDE DEF Fits
  <2>1. QED
    BY <1>1, <1>2
<1>4. \A p \in 1 .. End : p \in S
  <2> HIDE DEF S
  <2>1. QED
    BY <1>1, <1>3, Backward
<1>5. \A p \in b .. End : Fits(p)
  <2> HIDE DEF Fits
  <2>1. QED
    BY <1>1, <1>4
<1>6. QED
  BY <1>5

(* A block comment ends where the grammar says.                              *)
LEMMA CommentEndFacts ==
  ASSUME Reads, NEW p \in 1 .. End
  PROVE  CommentEnd(p) \in p .. End /\ CommentEnd(p) \in CommentRest[p]
<1>1. End \in Nat
  BY EndFacts
<1>2. \E f : IsDepths(f, p)
  BY DepthsExist
<1>3. \E f : IsDepths(f, p) /\ CommentEnd(p) = f[p][1]
  BY <1>2 DEF IsDepths, DepthAt, CommentEnd
<1>4. PICK f : IsDepths(f, p) /\ CommentEnd(p) = f[p][1]
  BY <1>3
<1>5. p \in p .. End /\ 1 \in 1 .. p
  BY <1>1
<1>6. PICK r \in p .. End : r \in CommentRest[p] /\ f[p][1] = f[r][1 - 1]
  BY <1>4, <1>5, DepthIsRest
<1>7. r \in 1 .. End /\ 0 \in 0 .. r /\ f[r] = DepthAt(f, r)
  BY <1>1, <1>4, <1>6 DEF IsDepths
<1>8. f[r][0] = r
  BY <1>7, DepthCases
<1>9. QED
  BY <1>4, <1>6, <1>8

-----------------------------------------------------------------------------
(* Layout.                                                                  *)

(* Of what starts at a position, one part is skipped at most.                *)
LEMMA SkippedIsOne ==
  ASSUME Reads, NEW p \in 1 .. End, NEW q \in p + 1 .. End, Skipped(p, q)
  PROVE  /\ At(p) \notin LineEnds
         /\ \A s \in p + 1 .. End : Skipped(p, s) => s = q
<1>1. End \in Nat /\ p \in Nat /\ q \in Nat
  BY EndFacts
<1>2. At(p) \in {"SP", "TAB", "'", "/", "_"}
  BY DEF Skipped
<1>3. ASSUME NEW s \in p + 1 .. End, Skipped(p, s) PROVE s = q
  <2>1. CASE At(p) \in {"SP", "TAB"}
    BY <1>3, <2>1 DEF Skipped
  <2>2. CASE At(p) = "'"
    <3>1. /\ At(q) \in FileOrLineEnds /\ \A r \in p .. q - 1 : At(r) \notin FileOrLineEnds
          /\ At(s) \in FileOrLineEnds /\ \A r \in p .. s - 1 : At(r) \notin FileOrLineEnds
      BY <1>3, <2>2 DEF Skipped, OnOneLine
    <3>2. ~(q < s)
      BY <1>1, <3>1
    <3>3. ~(s < q)
      BY <1>1, <1>3, <3>1
    <3>4. QED
      BY <1>1, <3>2, <3>3
  <2>3. CASE At(p) = "/"
    <3>1. At(p) # "NUL" /\ At(p + 1) # "NUL"
      BY <2>3 DEF Skipped
    <3>2. p + 2 \in 1 .. End
      BY <1>1, <3>1, EndFacts
    <3>3. \E r \in p + 2 .. End : CommentRest[p + 2] = {r}
      BY <3>2, CommentRestFacts
    <3>4. q \in CommentRest[p + 2] /\ s \in CommentRest[p + 2]
      BY <1>3, <2>3 DEF Skipped
    <3>5. QED
      BY <3>3, <3>4
  <2>4. CASE At(p) = "_"
    <3>1. PICK r \in p .. q : OnOneLine(p, r) /\ EndsLine(r, q)
      BY <2>4 DEF Skipped
    <3>2. PICK t \in p .. s : OnOneLine(p, t) /\ EndsLine(t, s)
      BY <1>3, <2>4 DEF Skipped
    <3>3. /\ At(r) \in FileOrLineEnds /\ \A j \in p .. r - 1 : At(j) \notin FileOrLineEnds
          /\ At(t) \in FileOrLineEnds /\ \A j \in p .. t - 1 : At(j) \notin FileOrLineEnds
      BY <3>1, <3>2 DEF OnOneLine, EndsLine, FileOrLineEnds
    <3>4. ~(r < t)
      BY <1>1, <3>3
    <3>5. ~(t < r)
      BY <1>1, <3>3
    <3>6. r = t
      BY <1>1, <3>4, <3>5
    <3>7. QED
      BY <3>1, <3>2, <3>6 DEF EndsLine, LineEnds
  <2>5. QED
    BY <1>2, <2>1, <2>2, <2>3, <2>4
<1>4. At(p) \notin LineEnds
  BY <1>2 DEF LineEnds
<1>5. QED
  BY <1>3, <1>4

LayoutAt(f, p) == {<<p, FALSE>>} \cup Continued(f, p) \cup Ended(f, p)
IsLayout(f, b) == f = [p \in b .. End |-> LayoutAt(f, p)]

(* It depends on what follows only.                                          *)
LEMMA LayoutAgrees ==
  ASSUME Reads, NEW f, NEW g, NEW p \in 1 .. End, \A q \in p + 1 .. End : f[q] = g[q]
  PROVE  LayoutAt(f, p) = LayoutAt(g, p)
<1>1. Continued(f, p) = Continued(g, p)
  BY DEF Continued
<1>2. Ended(f, p) = Ended(g, p)
  <2>1. At(p) \in LineEnds => f[AfterLineEnd(p)] = g[AfterLineEnd(p)]
    BY LineEndFacts
  <2>2. QED
    BY <2>1 DEF Ended
<1>3. QED
  BY <1>1, <1>2 DEF LayoutAt

(* The functions Layout could be, from a position on.                         *)
LEMMA LayoutsExist ==
  ASSUME Reads
  PROVE  \A b \in 1 .. End : \E f : IsLayout(f, b)
<1> DEFINE S == {b \in 1 .. End : \E f : IsLayout(f, b)}
<1>1. End \in Nat
  BY EndFacts
<1>2. ASSUME NEW b \in 1 .. End, \A q \in b + 1 .. End : q \in S
      PROVE  b \in S
  <2>1. \E f : IsLayout(f, b + 1)
    <3>1. CASE b = End
      <4> DEFINE h == [p \in {} |-> p]
      <4>1. b + 1 .. End = {}
        BY <1>1, <3>1
      <4>2. h = [p \in b + 1 .. End |-> LayoutAt(h, p)]
        BY <4>1
      <4>3. QED
        BY <4>2 DEF IsLayout
    <3>2. CASE b # End
      BY <1>1, <1>2, <3>2
    <3>3. QED
      BY <3>1, <3>2
  <2>2. PICK f : IsLayout(f, b + 1)
    BY <2>1
  <2> DEFINE g == [p \in b .. End |-> LayoutAt(f, p)]
  <2>3. \A q \in b + 1 .. End : f[q] = LayoutAt(f, q) /\ g[q] = LayoutAt(f, q)
    BY <1>1, <2>2 DEF IsLayout
  <2>4. ASSUME NEW p \in b .. End PROVE LayoutAt(f, p) = LayoutAt(g, p)
    <3>1. p \in 1 .. End /\ \A q \in p + 1 .. End : f[q] = g[q]
      BY <1>1, <2>3
    <3> HIDE DEF g
    <3>2. QED
      BY <3>1, LayoutAgrees
  <2>5. g = [p \in b .. End |-> LayoutAt(g, p)]
    BY <2>4
  <2> HIDE DEF g
  <2>6. QED
    BY <2>5 DEF IsLayout
<1>3. \A b \in 1 .. End : b \in S
  <2> HIDE DEF S
  <2>1. QED
    BY <1>1, <1>2, Backward
<1>4. QED
  BY <1>3

(* What is read as layout: pairs of a later position and a flag.              *)
LEMMA LayoutFacts ==
  ASSUME Reads
  PROVE  /\ IsLayout(Layout, 1)
         /\ \A p \in 1 .. End : \A x \in Layout[p] : x \in (p .. End) \X BOOLEAN
<1>1. End \in Nat /\ 1 \in 1 .. End
  BY EndFacts
<1>2. \E f : IsLayout(f, 1)
  BY <1>1, LayoutsExist
<1>3. IsLayout(Layout, 1)
  BY <1>2 DEF IsLayout, LayoutAt, Layout
<1> DEFINE Fits(p) == \A x \in Layout[p] : x \in (p .. End) \X BOOLEAN
           S == {p \in 1 .. End : Fits(p)}
<1>4. ASSUME NEW p \in 1 .. End, \A q \in p + 1 .. End : q \in S
      PROVE  Fits(p)
  <2>1. Layout[p] = LayoutAt(Layout, p)
    BY <1>1, <1>3 DEF IsLayout
  <2>2. SUFFICES ASSUME NEW x \in Layout[p] PROVE x \in (p .. End) \X BOOLEAN
    OBVIOUS
  <2>3. CASE x = <<p, FALSE>>
    <3>1. p \in p .. End /\ FALSE \in BOOLEAN
      BY <1>1
    <3>2. QED
      BY <2>3, <3>1
  <2>4. CASE x \in Continued(Layout, p)
    <3>1. PICK q \in p + 1 .. End : x \in Layout[q]
      BY <2>4 DEF Continued
    <3>2. x \in (q .. End) \X BOOLEAN
      BY <1>4, <3>1
    <3>3. QED
      BY <1>1, <3>1, <3>2
  <2>5. CASE x \in Ended(Layout, p)
    <3>1. At(p) \in LineEnds
      BY <2>5 DEF Ended
    <3>2. AfterLineEnd(p) \in p + 1 .. End
      BY <3>1, LineEndFacts
    <3>3. PICK y \in Layout[AfterLineEnd(p)] : x = <<y[1], TRUE>>
      BY <2>5, <3>1 DEF Ended
    <3>4. y \in (AfterLineEnd(p) .. End) \X BOOLEAN
      BY <1>4, <3>2, <3>3
    <3>5. y[1] \in p .. End /\ TRUE \in BOOLEAN
      BY <1>1, <3>2, <3>4
    <3>6. QED
      BY <3>3, <3>5
  <2>6. QED
    BY <2>1, <2>3, <2>4, <2>5 DEF LayoutAt
<1>5. \A p \in 1 .. End : p \in S
  <2>1. \A p \in 1 .. End : (\A q \in p + 1 .. End : q \in S) => p \in S
    <3> HIDE DEF Fits
    <3>1. QED
      BY <1>4
  <2> HIDE DEF S
  <2>2. QED
    BY <1>1, <2>1, Backward
<1>6. QED
  BY <1>3, <1>5

(* What can be read between two positions.                                   *)
Read(p, q) == Readings(Layout, p, q)

(* Nothing is layout, and ends no line.                                      *)
LEMMA ReadNothing ==
  ASSUME Reads, NEW p \in 1 .. End
  PROVE  Read(p, p) = {FALSE} /\ \A q \in 1 .. p - 1 : Read(p, q) = {}
<1>1. End \in Nat /\ IsLayout(Layout, 1)
  BY EndFacts, LayoutFacts
<1>2. Layout[p] = {<<p, FALSE>>} \cup Continued(Layout, p) \cup Ended(Layout, p)
  BY <1>1 DEF IsLayout, LayoutAt
<1>3. <<p, FALSE>> \in Layout[p]
  BY <1>2
<1>4. <<p, TRUE>> \notin Layout[p]
  <2>1. <<p, TRUE>> \notin Continued(Layout, p)
    <3>1. ASSUME NEW q \in p + 1 .. End, <<p, TRUE>> \in Layout[q] PROVE FALSE
      <4>1. q \in 1 .. End
        BY <1>1
      <4>2. <<p, TRUE>> \in (q .. End) \X BOOLEAN
        BY <3>1, <4>1, LayoutFacts
      <4>3. QED
        BY <1>1, <4>2
    <3>2. QED
      BY <3>1 DEF Continued
  <2>2. <<p, TRUE>> \notin Ended(Layout, p)
    <3>1. ASSUME At(p) \in LineEnds, NEW x \in Layout[AfterLineEnd(p)], x[1] = p PROVE FALSE
      <4>1. AfterLineEnd(p) \in p + 1 .. End
        BY <3>1, LineEndFacts
      <4>2. x \in (AfterLineEnd(p) .. End) \X BOOLEAN
        BY <1>1, <3>1, <4>1, LayoutFacts
      <4>3. QED
        BY <1>1, <3>1, <4>1, <4>2
    <3>2. QED
      BY <3>1 DEF Ended
  <2>3. QED
    BY <1>2, <2>1, <2>2
<1>5. ASSUME NEW q \in 1 .. p - 1, NEW b, <<q, b>> \in Layout[p] PROVE FALSE
  <2>1. <<q, b>> \in (p .. End) \X BOOLEAN
    BY <1>5, LayoutFacts
  <2>2. QED
    BY <1>1, <2>1
<1>6. QED
  BY <1>3, <1>4, <1>5 DEF Read, Readings

(* After a part that is skipped, what can be read from its end.               *)
LEMMA ReadSkipped ==
  ASSUME Reads, NEW p \in 1 .. End, NEW s \in p + 1 .. End, Skipped(p, s), NEW q \in p + 1 .. End
  PROVE  Read(p, q) = Read(s, q)
<1>1. End \in Nat /\ IsLayout(Layout, 1)
  BY EndFacts, LayoutFacts
<1>2. Layout[p] = {<<p, FALSE>>} \cup Continued(Layout, p) \cup Ended(Layout, p)
  BY <1>1 DEF IsLayout, LayoutAt
<1>3. Ended(Layout, p) = {}
  BY SkippedIsOne DEF Ended
<1>4. Continued(Layout, p) = Layout[s]
  <2>1. {q1 \in p + 1 .. End : Skipped(p, q1)} = {s}
    BY SkippedIsOne
  <2>2. QED
    BY <2>1 DEF Continued
<1>5. p # q
  BY <1>1
<1>6. ASSUME NEW b PROVE <<q, b>> \in Layout[p] <=> <<q, b>> \in Layout[s]
  BY <1>2, <1>3, <1>4, <1>5
<1>7. QED
  BY <1>6 DEF Read, Readings

(* After a line end, whatever can be read from there, with that line end.     *)
LEMMA ReadEnded ==
  ASSUME Reads, NEW p \in 1 .. End, At(p) \in LineEnds, NEW q \in p + 1 .. End
  PROVE  Read(p, q) = IF Read(AfterLineEnd(p), q) # {} THEN {TRUE} ELSE {}
<1> DEFINE s == AfterLineEnd(p)
<1>1. End \in Nat /\ IsLayout(Layout, 1) /\ s \in p + 1 .. End
  BY EndFacts, LayoutFacts, LineEndFacts
<1> HIDE DEF s
<1>2. Layout[p] = {<<p, FALSE>>} \cup Continued(Layout, p) \cup Ended(Layout, p)
  BY <1>1 DEF IsLayout, LayoutAt
<1>3. Continued(Layout, p) = {}
  BY SkippedIsOne DEF Continued
<1>4. Ended(Layout, p) = {<<x[1], TRUE>> : x \in Layout[s]}
  BY DEF Ended, s
<1>5. p # q /\ s \in 1 .. End
  BY <1>1
<1>6. \A b : <<q, b>> \in Layout[p] <=> b = TRUE /\ \E x \in Layout[s] : x[1] = q
  BY <1>2, <1>3, <1>4, <1>5
<1>7. (\E x \in Layout[s] : x[1] = q) <=> Read(s, q) # {}
  <2>1. ASSUME NEW x \in Layout[s], x[1] = q PROVE Read(s, q) # {}
    <3>1. x \in (s .. End) \X BOOLEAN
      BY <1>5, <2>1, LayoutFacts
    <3>2. x = <<q, x[2]>> /\ x[2] \in BOOLEAN
      BY <2>1, <3>1
    <3>3. x[2] \in Read(s, q)
      BY <2>1, <3>2 DEF Read, Readings
    <3>4. QED
      BY <3>3
  <2>2. ASSUME NEW b \in Read(s, q) PROVE \E x \in Layout[s] : x[1] = q
    <3>1. <<q, b>> \in Layout[s]
      BY <2>2 DEF Read, Readings
    <3>2. QED
      BY <3>1
  <2>3. QED
    BY <2>1, <2>2
<1>8. CASE Read(s, q) # {}
  BY <1>6, <1>7, <1>8 DEF Read, Readings, s
<1>9. CASE Read(s, q) = {}
  BY <1>6, <1>7, <1>9 DEF Read, Readings, s
<1>10. QED
  BY <1>8, <1>9 DEF s

(* And nothing is read otherwise.                                            *)
LEMMA ReadStops ==
  ASSUME Reads, NEW p \in 1 .. End, NEW q \in p + 1 .. End, Read(p, q) # {},
         At(p) \notin LineEnds
  PROVE  \E s \in p + 1 .. End : Skipped(p, s)
<1>1. End \in Nat /\ IsLayout(Layout, 1)
  BY EndFacts, LayoutFacts
<1>2. Layout[p] = {<<p, FALSE>>} \cup Continued(Layout, p) \cup Ended(Layout, p)
  BY <1>1 DEF IsLayout, LayoutAt
<1>3. Ended(Layout, p) = {} /\ p # q
  BY <1>1 DEF Ended
<1>4. PICK b : <<q, b>> \in Layout[p]
  BY DEF Read, Readings
<1>5. <<q, b>> \in Continued(Layout, p)
  BY <1>2, <1>3, <1>4
<1>6. QED
  BY <1>5 DEF Continued

(* A part that is skipped, and a line end, at the end of what was read.       *)
Extends(p, r) ==
  /\ \A q \in r + 1 .. End : Skipped(r, q) => Read(p, q) = Read(p, r)
  /\ At(r) \in LineEnds => Read(p, AfterLineEnd(r)) = {TRUE}

(* What was read stays read when more is.                                    *)
LEMMA ReadJoins ==
  ASSUME Reads
  PROVE  \A p \in 1 .. End : \A r \in p .. End : Read(p, r) # {} => Extends(p, r)
<1> DEFINE Fits(p) == \A r \in p .. End : Read(p, r) # {} => Extends(p, r)
           S == {p \in 1 .. End : Fits(p)}
<1>1. End \in Nat
  BY EndFacts
<1>2. ASSUME NEW p \in 1 .. End, \A q \in p + 1 .. End : q \in S
      PROVE  Fits(p)
  <2>1. SUFFICES ASSUME NEW r \in p .. End, Read(p, r) # {}
                 PROVE  Extends(p, r)
    OBVIOUS
  <2>2. ASSUME NEW s \in p + 1 .. End, Read(s, r) # {} PROVE s \in p + 1 .. r /\ Extends(s, r)
    <3>1. s \in 1 .. End /\ r \in 1 .. End
      BY <1>1
    <3>2. ~(r < s)
      <4>1. \A q \in 1 .. s - 1 : Read(s, q) = {}
        BY <3>1, ReadNothing
      <4>2. r < s => r \in 1 .. s - 1
        BY <1>1, <3>1
      <4>3. QED
        BY <2>2, <4>1, <4>2
    <3>3. r \in s .. End /\ s \in p + 1 .. r
      BY <1>1, <3>1, <3>2
    <3>4. QED
      BY <1>2, <2>2, <3>3
  <2>3. ASSUME At(r) \in LineEnds PROVE AfterLineEnd(r) \in r + 1 .. End
    BY <1>1, <2>3, LineEndFacts
  <2>4. CASE r = p
    <3>1. ASSUME NEW q \in p + 1 .. End, Skipped(p, q) PROVE Read(p, q) = Read(p, p)
      <4>1. q \in 1 .. End
        BY <1>1
      <4>2. Read(p, q) = Read(q, q)
        BY <3>1, ReadSkipped
      <4>3. QED
        BY <4>1, <4>2, ReadNothing
    <3>2. ASSUME At(p) \in LineEnds PROVE Read(p, AfterLineEnd(p)) = {TRUE}
      <4>1. AfterLineEnd(p) \in p + 1 .. End /\ AfterLineEnd(p) \in 1 .. End
        BY <1>1, <3>2, LineEndFacts
      <4>2. Read(AfterLineEnd(p), AfterLineEnd(p)) = {FALSE}
        BY <4>1, ReadNothing
      <4>3. QED
        BY <3>2, <4>1, <4>2, ReadEnded
    <3>3. QED
      BY <2>4, <3>1, <3>2 DEF Extends
  <2>5. CASE r # p /\ At(p) \in LineEnds
    <3>1. r \in p + 1 .. End
      BY <1>1, <2>5
    <3> DEFINE s == AfterLineEnd(p)
    <3>2. s \in p + 1 .. End
      BY <2>5, LineEndFacts
    <3>3. \A q \in p + 1 .. End : Read(p, q) = IF Read(s, q) # {} THEN {TRUE} ELSE {}
      BY <2>5, ReadEnded
    <3> HIDE DEF s
    <3>4. Read(s, r) # {} /\ Read(p, r) = {TRUE}
      BY <2>1, <3>1, <3>3
    <3>5. s \in p + 1 .. r /\ Extends(s, r)
      BY <2>2, <3>2, <3>4
    <3>6. ASSUME NEW q \in r + 1 .. End, Skipped(r, q) PROVE Read(p, q) = Read(p, r)
      <4>1. Read(s, q) = Read(s, r) /\ q \in p + 1 .. End
        BY <1>1, <3>5, <3>6 DEF Extends
      <4>2. QED
        BY <3>3, <3>4, <4>1
    <3>7. ASSUME At(r) \in LineEnds PROVE Read(p, AfterLineEnd(r)) = {TRUE}
      <4>1. Read(s, AfterLineEnd(r)) = {TRUE}
        BY <3>5, <3>7 DEF Extends
      <4>2. AfterLineEnd(r) \in p + 1 .. End
        BY <1>1, <2>3, <3>7
      <4>3. QED
        BY <3>3, <4>1, <4>2
    <3>8. QED
      BY <3>6, <3>7 DEF Extends
  <2>6. CASE r # p /\ At(p) \notin LineEnds
    <3>1. r \in p + 1 .. End
      BY <1>1, <2>6
    <3>2. PICK s \in p + 1 .. End : Skipped(p, s)
      BY <2>1, <2>6, <3>1, ReadStops
    <3>3. \A q \in p + 1 .. End : Read(p, q) = Read(s, q)
      BY <3>2, ReadSkipped
    <3>4. Read(s, r) # {} /\ Read(p, r) = Read(s, r)
      BY <2>1, <3>1, <3>3
    <3>5. s \in p + 1 .. r /\ Extends(s, r)
      BY <2>2, <3>2, <3>4
    <3>6. ASSUME NEW q \in r + 1 .. End, Skipped(r, q) PROVE Read(p, q) = Read(p, r)
      <4>1. Read(s, q) = Read(s, r) /\ q \in p + 1 .. End
        BY <1>1, <3>5, <3>6 DEF Extends
      <4>2. QED
        BY <3>3, <3>4, <4>1
    <3>7. ASSUME At(r) \in LineEnds PROVE Read(p, AfterLineEnd(r)) = {TRUE}
      <4>1. Read(s, AfterLineEnd(r)) = {TRUE}
        BY <3>5, <3>7 DEF Extends
      <4>2. AfterLineEnd(r) \in p + 1 .. End
        BY <1>1, <2>3, <3>7
      <4>3. QED
        BY <3>3, <4>1, <4>2
    <3>8. QED
      BY <3>6, <3>7 DEF Extends
  <2>7. QED
    BY <2>4, <2>5, <2>6
<1>3. \A p \in 1 .. End : p \in S
  <2>1. \A p \in 1 .. End : (\A q \in p + 1 .. End : q \in S) => p \in S
    <3> HIDE DEF Fits
    <3>1. QED
      BY <1>2
  <2> HIDE DEF S
  <2>2. QED
    BY <1>1, <2>1, Backward
<1>4. QED
  BY <1>3

-----------------------------------------------------------------------------
(* String literals.                                                         *)

ScanAt(f, p) ==
  CASE At(p) = "\"" -> [stop |-> p, escapes |-> 0]
    [] At(p) = "\\" /\ At(p + 1) \in FileOrLineEnds -> [stop |-> p, escapes |-> 0]
    [] At(p) = "\\" /\ At(p + 1) \notin FileOrLineEnds ->
         [f[p + 2] EXCEPT !.escapes = IF At(p + 1) \in Escapes THEN @ ELSE @ + 1]
    [] At(p) \in Invisible -> [stop |-> p, escapes |-> 0]
    [] OTHER -> f[p + 1]
IsScan(f, b) == f = [p \in b .. End |-> ScanAt(f, p)]

(* What ScanAt is, by the characters at hand.                                 *)
LEMMA ScanCases ==
  ASSUME Reads, NEW f, NEW p \in 1 .. End
  PROVE  \/ ScanAt(f, p) = [stop |-> p, escapes |-> 0]
         \/ p + 2 \in p + 1 .. End /\ At(p) = "\\" /\ At(p + 1) \notin FileOrLineEnds
            /\ ScanAt(f, p) = [f[p + 2] EXCEPT !.escapes = IF At(p + 1) \in Escapes THEN @ ELSE @ + 1]
         \/ p + 1 \in p + 1 .. End
            /\ At(p) \notin {"\"", "\\"} /\ At(p) \notin Invisible /\ ScanAt(f, p) = f[p + 1]
<1>1. /\ End \in Nat /\ At(End) = "NUL" /\ (At(p) = "NUL" <=> p = End)
      /\ (At(p) # "NUL" => p + 1 \in p + 1 .. End)
      /\ (At(p) # "NUL" /\ At(p + 1) # "NUL" => p + 2 \in p + 1 .. End)
  BY EndFacts
<1>2. CASE At(p) = "\""
  BY <1>2 DEF ScanAt, Invisible, FileOrLineEnds, LineEnds
<1>3. CASE At(p) = "\\" /\ At(p + 1) \in FileOrLineEnds
  BY <1>3 DEF ScanAt, Invisible, FileOrLineEnds, LineEnds
<1>4. CASE At(p) = "\\" /\ At(p + 1) \notin FileOrLineEnds
  <2>1. p + 2 \in p + 1 .. End
    BY <1>1, <1>4 DEF FileOrLineEnds
  <2>2. ScanAt(f, p) = [f[p + 2] EXCEPT !.escapes = IF At(p + 1) \in Escapes THEN @ ELSE @ + 1]
    <3>1. At(p) # "\"" /\ At(p) \notin Invisible
      BY <1>4 DEF Invisible, FileOrLineEnds, LineEnds
    <3>2. QED
      BY <1>4, <3>1 DEF ScanAt
  <2>3. QED
    BY <1>4, <2>1, <2>2
<1>5. CASE At(p) \notin {"\"", "\\"} /\ At(p) \in Invisible
  BY <1>5 DEF ScanAt
<1>6. CASE At(p) \notin {"\"", "\\"} /\ At(p) \notin Invisible
  <2>1. p + 1 \in p + 1 .. End
    BY <1>1, <1>6 DEF Invisible, FileOrLineEnds
  <2>2. ScanAt(f, p) = f[p + 1]
    BY <1>6 DEF ScanAt
  <2>3. QED
    BY <1>6, <2>1, <2>2
<1>7. QED
  BY <1>2, <1>3, <1>4, <1>5, <1>6

(* It depends on what follows only.                                          *)
LEMMA ScanAgrees ==
  ASSUME Reads, NEW f, NEW g, NEW p \in 1 .. End, \A q \in p + 1 .. End : f[q] = g[q]
  PROVE  ScanAt(f, p) = ScanAt(g, p)
<1>1. /\ End \in Nat /\ (At(p) # "NUL" => p + 1 \in p + 1 .. End)
      /\ (At(p) # "NUL" /\ At(p + 1) # "NUL" => p + 2 \in p + 1 .. End)
  BY EndFacts
<1>2. CASE At(p) = "\\" /\ At(p + 1) \notin FileOrLineEnds
  <2>1. f[p + 2] = g[p + 2]
    BY <1>1, <1>2 DEF FileOrLineEnds
  <2>2. QED
    BY <1>2, <2>1 DEF ScanAt
<1>3. CASE At(p) \in Invisible /\ ~(At(p) = "\\" /\ At(p + 1) \notin FileOrLineEnds)
  BY <1>3 DEF ScanAt
<1>4. CASE At(p) \notin Invisible /\ ~(At(p) = "\\" /\ At(p + 1) \notin FileOrLineEnds)
  <2>1. f[p + 1] = g[p + 1]
    BY <1>1, <1>4 DEF Invisible, FileOrLineEnds
  <2>2. QED
    BY <1>4, <2>1 DEF ScanAt
<1>5. QED
  BY <1>2, <1>3, <1>4

(* The functions ScanString could go by, from a position on.                  *)
LEMMA ScansExist ==
  ASSUME Reads
  PROVE  \A b \in 1 .. End : \E f : IsScan(f, b)
<1> DEFINE S == {b \in 1 .. End : \E f : IsScan(f, b)}
<1>1. End \in Nat
  BY EndFacts
<1>2. ASSUME NEW b \in 1 .. End, \A q \in b + 1 .. End : q \in S
      PROVE  b \in S
  <2>1. \E f : IsScan(f, b + 1)
    <3>1. CASE b = End
      <4> DEFINE h == [p \in {} |-> p]
      <4>1. b + 1 .. End = {}
        BY <1>1, <3>1
      <4>2. h = [p \in b + 1 .. End |-> ScanAt(h, p)]
        BY <4>1
      <4>3. QED
        BY <4>2 DEF IsScan
    <3>2. CASE b # End
      BY <1>1, <1>2, <3>2
    <3>3. QED
      BY <3>1, <3>2
  <2>2. PICK f : IsScan(f, b + 1)
    BY <2>1
  <2> DEFINE g == [p \in b .. End |-> ScanAt(f, p)]
  <2>3. \A q \in b + 1 .. End : f[q] = ScanAt(f, q) /\ g[q] = ScanAt(f, q)
    BY <1>1, <2>2 DEF IsScan
  <2>4. ASSUME NEW p \in b .. End PROVE ScanAt(f, p) = ScanAt(g, p)
    <3>1. p \in 1 .. End /\ \A q \in p + 1 .. End : f[q] = g[q]
      BY <1>1, <2>3
    <3> HIDE DEF g
    <3>2. QED
      BY <3>1, ScanAgrees
  <2>5. g = [p \in b .. End |-> ScanAt(g, p)]
    BY <2>4
  <2> HIDE DEF g
  <2>6. QED
    BY <2>5 DEF IsScan
<1>3. \A b \in 1 .. End : b \in S
  <2> HIDE DEF S
  <2>1. QED
    BY <1>1, <1>2, Backward
<1>4. QED
  BY <1>3

(* stringLiteral stops within the text.                                      *)
LEMMA ScanStringFacts ==
  ASSUME Reads, NEW b \in 1 .. End
  PROVE  ScanString(b).stop \in b .. End
<1>1. End \in Nat
  BY EndFacts
<1>2. \E f : IsScan(f, b)
  BY ScansExist
<1>3. \E f : IsScan(f, b) /\ ScanString(b) = f[b]
  BY <1>2 DEF IsScan, ScanAt, ScanString
<1>4. PICK f : IsScan(f, b) /\ ScanString(b) = f[b]
  BY <1>3
<1> DEFINE Fits(p) == f[p] \in [stop : p .. End, escapes : Nat]
           S == {p \in Nat : p >= b => Fits(p)}
<1>5. ASSUME NEW p \in 1 .. End, \A q \in p + 1 .. End : q \in S, p >= b
      PROVE  Fits(p)
  <2>1. f[p] = ScanAt(f, p)
    BY <1>1, <1>4, <1>5 DEF IsScan
  <2>2. ASSUME NEW q \in p + 1 .. End PROVE Fits(q)
    BY <1>1, <1>5, <2>2
  <2>3. CASE ScanAt(f, p) = [stop |-> p, escapes |-> 0]
    BY <1>1, <2>1, <2>3
  <2>4. CASE p + 2 \in p + 1 .. End
             /\ ScanAt(f, p) = [f[p + 2] EXCEPT !.escapes = IF At(p + 1) \in Escapes THEN @ ELSE @ + 1]
    <3>1. f[p + 2] \in [stop : p + 2 .. End, escapes : Nat]
      BY <2>2, <2>4
    <3>2. p + 2 .. End \subseteq p .. End
      BY <1>1
    <3>3. QED
      BY <2>1, <2>4, <3>1, <3>2
  <2>5. CASE p + 1 \in p + 1 .. End /\ ScanAt(f, p) = f[p + 1]
    <3>1. f[p + 1] \in [stop : p + 1 .. End, escapes : Nat]
      BY <2>2, <2>5
    <3>2. p + 1 .. End \subseteq p .. End
      BY <1>1
    <3>3. QED
      BY <2>1, <2>5, <3>1, <3>2
  <2>6. QED
    BY <2>3, <2>4, <2>5, ScanCases
<1>6. \A p \in 1 .. End : p \in S
  <2>1. \A p \in 1 .. End : (\A q \in p + 1 .. End : q \in S) => p \in S
    <3> HIDE DEF Fits
    <3>1. QED
      BY <1>1, <1>5
  <2> HIDE DEF S
  <2>2. QED
    BY <1>1, <2>1, Backward
<1>7. Fits(b)
  BY <1>1, <1>6
<1>8. QED
  BY <1>4, <1>7

-----------------------------------------------------------------------------
(* What was read since the last word.                                        *)

From(i) == IF i = 0 THEN 1 ELSE tokens[i].to
LastWord ==
  IF hasStatement THEN Len(tokens) ELSE IF tokens = <<>> THEN 0 ELSE Len(tokens) - 1

WordsPlaced ==
  \A i \in 1 .. Len(tokens) : IsWord(i) => tokens[i].from \in 1 .. End /\ tokens[i].to \in 1 .. End
WordsJoin ==
  \A i \in 0 .. Len(tokens) : \A j \in i + 1 .. Len(tokens) :
    Neighbours(i, j) => Read(From(i), tokens[j].from) # {}
LinesJoin ==
  \A i \in 1 .. Len(tokens) - 1 :
    /\ IsWord(i) /\ IsWord(i + 1) => Read(tokens[i].to, tokens[i + 1].from) = {FALSE}
    /\ tokens[i].kind = "EndOfStmt" /\ IsWord(i + 1) =>
         Read(tokens[i - 1].to, tokens[i + 1].from) = {TRUE}
SinceWord ==
  /\ input \in 1 .. End
  /\ Read(From(LastWord), input) # {}
  /\ hasStatement => Read(From(LastWord), input) = {FALSE}
  /\ ~hasStatement /\ tokens # <<>> /\ input # End => Read(From(LastWord), input) = {TRUE}
ToTheEnd ==
  \A i \in 0 .. Len(tokens) : Neighbours(i, Len(tokens) + 1) => Read(From(i), End) # {}

LayoutInv ==
  /\ Reads /\ WordsPlaced /\ WordsJoin /\ LinesJoin
  /\ mode = "lexing" => SinceWord
  /\ mode = "ended" => ToTheEnd

(* The text does not change, so neither does how it can be read.              *)
LEMMA SameText ==
  ASSUME text' = text
  PROVE  /\ Layout' = Layout /\ End' = End /\ Reads' = Reads
<1>1. Layout' = Layout
  BY DEF Layout, Continued, Ended, Skipped, EndsLine, OnOneLine, AfterLineEnd, CommentRest, At, End
<1>2. QED
  BY <1>1 DEF End, Reads

(* The last word is the last token, or an EndOfStmt follows it.               *)
LEMMA LastWordFacts ==
  ASSUME StatementInv, mode = "lexing", WordsPlaced, Reads
  PROVE  /\ Len(tokens) \in Nat /\ DOMAIN tokens = 1 .. Len(tokens)
         /\ LastWord \in 0 .. Len(tokens) /\ From(LastWord) \in 1 .. End
         /\ hasStatement => LastWord = Len(tokens) /\ Len(tokens) > 0 /\ IsWord(Len(tokens))
         /\ Len(tokens) > 0 /\ ~hasStatement =>
              /\ tokens[Len(tokens)].kind = "EndOfStmt" /\ ~IsWord(Len(tokens))
              /\ LastWord = Len(tokens) - 1 /\ LastWord > 0 /\ IsWord(LastWord)
         /\ \A i \in 0 .. Len(tokens) :
              (i = 0 \/ IsWord(i)) /\ (\A k \in i + 1 .. Len(tokens) : ~IsWord(k)) => i = LastWord
<1> DEFINE n == Len(tokens)
<1>1. n \in Nat /\ DOMAIN tokens = 1 .. n /\ (tokens = <<>> <=> n = 0)
  <2>1. tokens \in Seq({tokens[i] : i \in DOMAIN tokens})
    BY DEF StatementInv
  <2>2. QED
    BY <2>1
<1>2. End \in Nat /\ 1 \in 1 .. End
  BY EndFacts
<1>3. CASE n = 0
  <2>1. ~hasStatement /\ LastWord = 0
    BY <1>1, <1>3 DEF StatementInv, LastWord
  <2>2. QED
    BY <1>1, <1>2, <1>3, <2>1 DEF From
<1>4. CASE n > 0 /\ hasStatement
  <2>1. IsWord(n)
    BY <1>1, <1>4 DEF StatementInv, LastKind, IsWord
  <2>2. LastWord = n /\ From(n) \in 1 .. End
    BY <1>1, <1>4, <2>1 DEF LastWord, From, WordsPlaced
  <2> HIDE DEF n
  <2>3. ASSUME NEW i \in 0 .. n, \A k \in i + 1 .. n : ~IsWord(k) PROVE i = n
    <3>1. n \notin i + 1 .. n
      BY <2>1, <2>3
    <3>2. QED
      BY <1>1, <2>3, <3>1
  <2>4. LastWord \in 0 .. n /\ From(LastWord) \in 1 .. End
    BY <1>1, <2>2
  <2>5. \A i \in 0 .. n :
          (i = 0 \/ IsWord(i)) /\ (\A k \in i + 1 .. n : ~IsWord(k)) => i = LastWord
    BY <2>2, <2>3
  <2>6. QED
    BY <1>1, <1>4, <2>1, <2>2, <2>4, <2>5 DEF n
<1>5. CASE n > 0 /\ ~hasStatement
  <2>1. tokens[n].kind = "EndOfStmt" /\ ~IsWord(n)
    BY <1>1, <1>5 DEF StatementInv, LastKind, IsWord, Words
  <2>2. n > 1 /\ IsWord(n - 1)
    <3>1. n \in DOMAIN tokens
      BY <1>1, <1>5
    <3>2. QED
      BY <2>1, <3>1 DEF StatementInv, StatementsEndOnce, IsWord
  <2>3. LastWord = n - 1 /\ LastWord > 0 /\ LastWord \in 0 .. n /\ From(n - 1) \in 1 .. End
    BY <1>1, <1>5, <2>2 DEF LastWord, From, WordsPlaced
  <2> HIDE DEF n
  <2>4. ASSUME NEW i \in 0 .. n, i = 0 \/ IsWord(i), \A k \in i + 1 .. n : ~IsWord(k) PROVE i = n - 1
    <3>1. n - 1 \notin i + 1 .. n
      BY <2>2, <2>4
    <3>2. i # n
      BY <1>1, <1>5, <2>1, <2>4
    <3>3. QED
      BY <1>1, <2>4, <3>1, <3>2
  <2>5. QED
    BY <1>1, <1>5, <2>1, <2>2, <2>3, <2>4 DEF n
<1>6. QED
  BY <1>1, <1>3, <1>4, <1>5

(* With one more token, what was said of the others still holds.              *)
LEMMA AppendKeeps ==
  ASSUME StatementInv, mode = "lexing", WordsPlaced, WordsJoin, LinesJoin, Reads,
         NEW e, tokens' = Append(tokens, e), text' = text,
         e.kind \in Words => /\ e.from \in 1 .. End /\ e.to \in 1 .. End
                             /\ Read(From(LastWord), e.from) # {}
                             /\ hasStatement => Read(From(LastWord), e.from) = {FALSE}
                             /\ ~hasStatement /\ tokens # <<>> =>
                                  Read(From(LastWord), e.from) = {TRUE}
  PROVE  /\ Reads' /\ WordsPlaced' /\ WordsJoin' /\ LinesJoin'
         /\ Len(tokens') = Len(tokens) + 1 /\ tokens' # <<>> /\ tokens'[Len(tokens) + 1] = e
         /\ \A i \in 0 .. Len(tokens) : From(i)' = From(i)
         /\ \A i \in 1 .. Len(tokens) : tokens'[i] = tokens[i]
<1> DEFINE n == Len(tokens)
<1>1. Layout' = Layout /\ End' = End /\ Reads'
  BY SameText
<1>2. /\ Len(tokens') = n + 1 /\ n \in Nat /\ tokens' # <<>> /\ tokens'[n + 1] = e
      /\ \A i \in 1 .. n : tokens'[i] = tokens[i]
  <2>1. tokens \in Seq({tokens[i] : i \in DOMAIN tokens})
    BY DEF StatementInv
  <2>2. QED
    BY <2>1, AppendFacts
<1>3. \A i \in 0 .. n : From(i)' = From(i)
  BY <1>2 DEF From
<1>4. /\ \A i \in 1 .. n : IsWord(i)' <=> IsWord(i)
      /\ \A i \in 1 .. n + 1 : i = n + 1 => (IsWord(i)' <=> e.kind \in Words)
  BY <1>2 DEF IsWord
<1>5. /\ LastWord \in 0 .. n
      /\ hasStatement => LastWord = n /\ n > 0 /\ IsWord(n)
      /\ n > 0 /\ ~hasStatement =>
           tokens[n].kind = "EndOfStmt" /\ ~IsWord(n) /\ LastWord = n - 1 /\ LastWord > 0
      /\ \A i \in 0 .. n :
           (i = 0 \/ IsWord(i)) /\ (\A k \in i + 1 .. n : ~IsWord(k)) => i = LastWord
  BY LastWordFacts
<1>6. tokens = <<>> <=> n = 0
  BY <1>2 DEF StatementInv
<1> HIDE DEF n
<1>7. WordsPlaced'
  <2>1. SUFFICES ASSUME NEW i \in 1 .. n + 1, IsWord(i)'
                 PROVE  tokens'[i].from \in 1 .. End' /\ tokens'[i].to \in 1 .. End'
    BY <1>2 DEF WordsPlaced
  <2>2. CASE i = n + 1
    BY <1>1, <1>2, <1>4, <2>1, <2>2
  <2>3. CASE i # n + 1
    <3>1. i \in 1 .. n
      BY <1>2, <2>3
    <3>2. QED
      BY <1>1, <1>2, <1>4, <2>1, <3>1 DEF WordsPlaced, n
  <2>4. QED
    BY <2>2, <2>3
<1>8. WordsJoin'
  <2>1. SUFFICES ASSUME NEW i \in 0 .. n + 1, NEW j \in i + 1 .. n + 1, Neighbours(i, j)'
                 PROVE  Readings(Layout', From(i)', tokens'[j].from) # {}
    BY <1>2 DEF WordsJoin, Read
  <2>2. i \in 0 .. n
    BY <1>2
  <2>3. /\ i = 0 \/ IsWord(i)
        /\ IsWord(j)'
        /\ \A k \in i + 1 .. j - 1 : ~IsWord(k)
    <3>1. /\ i = 0 \/ IsWord(i)'
          /\ j > n + 1 \/ IsWord(j)'
          /\ \A k \in i + 1 .. j - 1 : ~IsWord(k)'
      BY <1>2, <2>1 DEF Neighbours
    <3>2. ~(j > n + 1)
      BY <1>2
    <3>3. i # 0 => i \in 1 .. n
      BY <1>2, <2>2
    <3>4. \A k \in i + 1 .. j - 1 : k \in 1 .. n
      BY <1>2, <2>2
    <3>5. QED
      BY <1>4, <3>1, <3>2, <3>3, <3>4
  <2>4. CASE j = n + 1
    <3>1. j - 1 = n
      BY <1>2, <2>4
    <3>2. i = LastWord
      BY <1>5, <2>2, <2>3, <3>1
    <3>3. e.kind \in Words
      BY <1>4, <2>3, <2>4
    <3>4. Read(From(LastWord), e.from) # {}
      BY <3>3
    <3>5. QED
      BY <1>1, <1>2, <1>3, <2>2, <2>4, <3>2, <3>4 DEF Read
  <2>5. CASE j # n + 1
    <3>1. j \in 1 .. n /\ j \in i + 1 .. n
      BY <1>2, <2>2, <2>5
    <3>2. Neighbours(i, j)
      BY <1>4, <2>3, <3>1 DEF Neighbours
    <3>3. Read(From(i), tokens[j].from) # {}
      BY <2>2, <3>1, <3>2 DEF WordsJoin, n
    <3>4. QED
      BY <1>1, <1>2, <1>3, <2>2, <3>1, <3>3 DEF Read
  <2>6. QED
    BY <2>4, <2>5
<1>9. LinesJoin'
  <2>1. SUFFICES ASSUME NEW i \in 1 .. n, IsWord(i + 1)'
                 PROVE  /\ IsWord(i)' => Readings(Layout', tokens'[i].to, tokens'[i + 1].from) = {FALSE}
                        /\ tokens'[i].kind = "EndOfStmt" =>
                             Readings(Layout', tokens'[i - 1].to, tokens'[i + 1].from) = {TRUE}
    <3>1. Len(tokens') - 1 = n
      BY <1>2
    <3>2. QED
      BY <2>1, <3>1 DEF LinesJoin, Read
  <2>2. tokens'[i] = tokens[i] /\ (IsWord(i)' <=> IsWord(i))
    BY <1>2, <1>4
  <2>3. tokens[i].kind = "EndOfStmt" => i > 1 /\ tokens'[i - 1] = tokens[i - 1]
    <3>1. i \in DOMAIN tokens
      <4>1. tokens \in Seq({tokens[k] : k \in DOMAIN tokens})
        BY DEF StatementInv
      <4>2. QED
        BY <4>1 DEF n
    <3>2. tokens[i].kind = "EndOfStmt" => i > 1
      BY <3>1 DEF StatementInv, StatementsEndOnce
    <3>3. i > 1 => i - 1 \in 1 .. n
      BY <1>2
    <3>4. QED
      BY <1>2, <3>2, <3>3
  <2>4. CASE i = n
    <3>1. e.kind \in Words /\ tokens'[i + 1] = e /\ n > 0
      BY <1>2, <1>4, <2>1, <2>4
    <3>2. ASSUME IsWord(n) PROVE Read(tokens[n].to, e.from) = {FALSE}
      <4>1. hasStatement /\ LastWord = n /\ n # 0
        BY <1>2, <1>5, <3>1, <3>2
      <4>2. Read(From(LastWord), e.from) = {FALSE}
        BY <3>1, <4>1
      <4>3. QED
        BY <4>1, <4>2 DEF From
    <3>3. ASSUME tokens[n].kind = "EndOfStmt" PROVE Read(tokens[n - 1].to, e.from) = {TRUE}
      <4>1. ~IsWord(n)
        BY <3>3 DEF IsWord, Words
      <4>2. ~hasStatement /\ tokens # <<>> /\ LastWord = n - 1 /\ n - 1 # 0
        BY <1>2, <1>5, <1>6, <3>1, <4>1
      <4>3. Read(From(LastWord), e.from) = {TRUE}
        BY <3>1, <4>2
      <4>4. QED
        BY <4>2, <4>3 DEF From
    <3>4. QED
      BY <1>1, <2>2, <2>3, <2>4, <3>1, <3>2, <3>3 DEF Read
  <2>5. CASE i # n
    <3>1. i + 1 \in 1 .. n /\ i \in 1 .. n - 1
      BY <1>2, <2>5
    <3>2. tokens'[i + 1] = tokens[i + 1] /\ IsWord(i + 1)
      BY <1>2, <1>4, <2>1, <3>1
    <3>3. /\ IsWord(i) => Read(tokens[i].to, tokens[i + 1].from) = {FALSE}
          /\ tokens[i].kind = "EndOfStmt" => Read(tokens[i - 1].to, tokens[i + 1].from) = {TRUE}
      BY <3>1, <3>2 DEF LinesJoin, n
    <3>4. QED
      BY <1>1, <2>2, <2>3, <3>2, <3>3 DEF Read
  <2>6. QED
    BY <2>4, <2>5
<1>10. QED
  BY <1>1, <1>2, <1>3, <1>7, <1>8, <1>9 DEF n

(* A step that returns nothing keeps what was said of the tokens.             *)
LEMMA SameTokens ==
  ASSUME Reads, WordsPlaced, WordsJoin, LinesJoin, tokens' = tokens, text' = text
  PROVE  /\ Reads' /\ WordsPlaced' /\ WordsJoin' /\ LinesJoin'
         /\ \A i : From(i)' = From(i)
<1>1. Layout' = Layout /\ End' = End /\ Reads'
  BY SameText
<1>2. \A i : From(i)' = From(i) /\ (IsWord(i)' <=> IsWord(i))
  BY DEF From, IsWord
<1>3. WordsPlaced'
  BY <1>1, <1>2 DEF WordsPlaced
<1>4. WordsJoin'
  <2>1. SUFFICES ASSUME NEW i \in 0 .. Len(tokens), NEW j \in i + 1 .. Len(tokens), Neighbours(i, j)'
                 PROVE  Readings(Layout', From(i)', tokens'[j].from) # {}
    BY DEF WordsJoin, Read
  <2>2. Neighbours(i, j)
    BY <1>2, <2>1 DEF Neighbours
  <2>3. Readings(Layout, From(i), tokens[j].from) # {}
    BY <2>2 DEF WordsJoin, Read
  <2>4. QED
    BY <1>1, <1>2, <2>3
<1>5. LinesJoin'
  <2>1. SUFFICES ASSUME NEW i \in 1 .. Len(tokens) - 1, IsWord(i + 1)'
                 PROVE  /\ IsWord(i)' => Readings(Layout', tokens'[i].to, tokens'[i + 1].from) = {FALSE}
                        /\ tokens'[i].kind = "EndOfStmt" =>
                             Readings(Layout', tokens'[i - 1].to, tokens'[i + 1].from) = {TRUE}
    BY DEF LinesJoin, Read
  <2>2. IsWord(i + 1) /\ (IsWord(i)' <=> IsWord(i))
    BY <1>2, <2>1
  <2>3. /\ IsWord(i) => Readings(Layout, tokens[i].to, tokens[i + 1].from) = {FALSE}
        /\ tokens[i].kind = "EndOfStmt" => Readings(Layout, tokens[i - 1].to, tokens[i + 1].from) = {TRUE}
    BY <2>2 DEF LinesJoin, Read
  <2>4. QED
    BY <1>1, <2>2, <2>3
<1>6. QED
  BY <1>1, <1>2, <1>3, <1>4, <1>5

(* A word: from the cursor, up to which all is read, to its end.              *)
LEMMA ReturnJoins ==
  ASSUME StatementInv, LayoutInv, mode = "lexing",
         NEW kind \in Words, NEW to \in input + 1 .. End, Return(kind, to)
  PROVE  LayoutInv'
<1> DEFINE e == Token(kind, input, to)
<1>1. /\ Reads /\ WordsPlaced /\ WordsJoin /\ LinesJoin /\ SinceWord
      /\ mode' = "lexing" /\ text' = text /\ hasStatement' = TRUE
      /\ input' = to /\ tokens' = Append(tokens, e)
  BY DEF LayoutInv, Return
<1>2. e.kind = kind /\ e.from = input /\ e.to = to
  BY DEF Token
<1>3. End \in Nat /\ input \in 1 .. End /\ to \in 1 .. End /\ input # End
  BY <1>1, EndFacts DEF SinceWord
<1> HIDE DEF e
<1>4. /\ e.from \in 1 .. End /\ e.to \in 1 .. End
      /\ Read(From(LastWord), e.from) # {}
      /\ hasStatement => Read(From(LastWord), e.from) = {FALSE}
      /\ ~hasStatement /\ tokens # <<>> => Read(From(LastWord), e.from) = {TRUE}
  BY <1>1, <1>2, <1>3 DEF SinceWord
<1>5. /\ Reads' /\ WordsPlaced' /\ WordsJoin' /\ LinesJoin'
      /\ Len(tokens') = Len(tokens) + 1 /\ tokens'[Len(tokens) + 1] = e
  BY <1>1, <1>4, AppendKeeps
<1>6. Len(tokens) \in Nat
  BY <1>1, LastWordFacts
<1>7. From(LastWord)' = to
  BY <1>1, <1>2, <1>5, <1>6 DEF From, LastWord
<1>8. Read(to, to) = {FALSE}
  BY <1>1, <1>3, ReadNothing
<1>9. SinceWord'
  <2>1. Layout' = Layout /\ End' = End
    BY <1>1, SameText
  <2>2. Readings(Layout', From(LastWord)', input') = {FALSE}
    BY <1>1, <1>7, <1>8, <2>1 DEF Read
  <2>3. input' \in 1 .. End'
    BY <1>1, <1>3, <2>1
  <2>4. QED
    BY <1>1, <2>2, <2>3 DEF SinceWord, Read
<1>10. QED
  BY <1>1, <1>5, <1>9 DEF LayoutInv

(* Layout that is skipped.                                                   *)
LEMMA SkipJoins ==
  ASSUME StatementInv, LayoutInv, mode = "lexing",
         NEW q \in input + 1 .. End, Skipped(input, q), SkipTo(q)
  PROVE  LayoutInv'
<1>1. /\ Reads /\ WordsPlaced /\ WordsJoin /\ LinesJoin /\ SinceWord
      /\ mode' = "lexing" /\ text' = text /\ hasStatement' = hasStatement
      /\ input' = q /\ tokens' = tokens
  BY DEF LayoutInv, SkipTo
<1>2. /\ Reads' /\ WordsPlaced' /\ WordsJoin' /\ LinesJoin'
      /\ \A i : From(i)' = From(i)
  BY <1>1, SameTokens
<1>3. End \in Nat /\ input \in 1 .. End /\ q \in 1 .. End /\ input # End
  BY <1>1, EndFacts DEF SinceWord
<1>4. From(LastWord) \in 1 .. End /\ Read(From(LastWord), input) # {}
  BY <1>1, LastWordFacts DEF SinceWord
<1>5. Read(From(LastWord), q) = Read(From(LastWord), input)
  <2>1. input \in From(LastWord) .. End
    <3>1. \A r \in 1 .. From(LastWord) - 1 : Read(From(LastWord), r) = {}
      BY <1>1, <1>4, ReadNothing
    <3>2. input < From(LastWord) => input \in 1 .. From(LastWord) - 1
      BY <1>3, <1>4
    <3>3. ~(input < From(LastWord))
      BY <1>4, <3>1, <3>2
    <3>4. QED
      BY <1>3, <1>4, <3>3
  <2>2. Extends(From(LastWord), input)
    BY <1>1, <1>4, <2>1, ReadJoins
  <2>3. QED
    BY <2>2 DEF Extends
<1>6. LastWord' = LastWord
  BY <1>1 DEF LastWord
<1>7. SinceWord'
  <2>1. Layout' = Layout /\ End' = End
    BY <1>1, SameText
  <2>2. From(LastWord)' = From(LastWord)
    BY <1>1, <1>6 DEF From
  <2>3. Readings(Layout', From(LastWord)', input') = Read(From(LastWord), input)
    BY <1>1, <1>5, <2>1, <2>2 DEF Read
  <2>4. input' \in 1 .. End'
    BY <1>1, <1>3, <2>1
  <2>5. QED
    BY <1>1, <1>3, <2>3, <2>4 DEF SinceWord, Read
<1>8. QED
  BY <1>1, <1>2, <1>7 DEF LayoutInv

(* A line end, which ends the statement if there is one.                      *)
LEMMA LineEndJoins ==
  ASSUME StatementInv, LayoutInv, LineEnd
  PROVE  LayoutInv'
<1> DEFINE q == AfterLineEnd(input)
           e == Token("EndOfStmt", start', input')
<1>1. /\ Reads /\ WordsPlaced /\ WordsJoin /\ LinesJoin /\ SinceWord
      /\ mode = "lexing" /\ mode' = "lexing" /\ text' = text /\ input' = q
      /\ At(input) \in LineEnds
      /\ hasStatement => hasStatement' = FALSE /\ tokens' = Append(tokens, e)
      /\ ~hasStatement => hasStatement' = FALSE /\ tokens' = tokens
  <2>1. mode = "lexing" /\ hasStatement \in BOOLEAN
    BY DEF LineEnd, Lexing, StatementInv
  <2>2. QED
    BY <2>1 DEF LayoutInv, LineEnd, EndOfStmt, Lexing, Current
<1>2. End \in Nat /\ input \in 1 .. End
  BY <1>1, EndFacts DEF SinceWord
<1>3. q \in input + 1 .. End /\ q \in 1 .. End
  BY <1>1, <1>2, LineEndFacts
<1>4. e.kind \notin Words
  BY DEF Token, Words
<1> HIDE DEF q, e
<1>5. /\ From(LastWord) \in 1 .. End /\ Read(From(LastWord), input) # {}
      /\ LastWord \in 0 .. Len(tokens) /\ Len(tokens) \in Nat
      /\ hasStatement => LastWord = Len(tokens)
  BY <1>1, LastWordFacts DEF SinceWord
<1>6. Read(From(LastWord), q) = {TRUE}
  <2>1. input \in From(LastWord) .. End
    <3>1. \A r \in 1 .. From(LastWord) - 1 : Read(From(LastWord), r) = {}
      BY <1>1, <1>5, ReadNothing
    <3>2. input < From(LastWord) => input \in 1 .. From(LastWord) - 1
      BY <1>2, <1>5
    <3>3. ~(input < From(LastWord))
      BY <1>5, <3>1, <3>2
    <3>4. QED
      BY <1>2, <1>5, <3>3
  <2>2. Extends(From(LastWord), input)
    BY <1>1, <1>5, <2>1, ReadJoins
  <2>3. QED
    BY <1>1, <2>2 DEF Extends, q
<1>7. /\ Reads' /\ WordsPlaced' /\ WordsJoin' /\ LinesJoin'
      /\ LastWord' = LastWord /\ From(LastWord)' = From(LastWord)
  <2>1. CASE hasStatement
    <3>1. /\ Reads' /\ WordsPlaced' /\ WordsJoin' /\ LinesJoin'
          /\ Len(tokens') = Len(tokens) + 1 /\ tokens' # <<>>
          /\ \A i \in 0 .. Len(tokens) : From(i)' = From(i)
          /\ \A i \in 1 .. Len(tokens) : tokens'[i] = tokens[i]
      BY <1>1, <1>4, <2>1, AppendKeeps
    <3>2. LastWord' = LastWord
      BY <1>1, <1>5, <2>1, <3>1 DEF LastWord
    <3>3. LastWord # 0 => tokens'[LastWord] = tokens[LastWord]
      BY <1>5, <3>1
    <3>4. From(LastWord)' = From(LastWord)
      BY <3>2, <3>3 DEF From
    <3>5. QED
      BY <3>1, <3>2, <3>4
  <2>2. CASE ~hasStatement
    <3>1. Reads' /\ WordsPlaced' /\ WordsJoin' /\ LinesJoin'
      BY <1>1, <2>2, SameTokens
    <3>2. LastWord' = LastWord
      BY <1>1, <2>2 DEF LastWord
    <3>3. From(LastWord)' = From(LastWord)
      BY <1>1, <2>2, <3>2 DEF From
    <3>4. QED
      BY <3>1, <3>2, <3>3
  <2>3. QED
    BY <2>1, <2>2
<1>8. SinceWord'
  <2>1. Layout' = Layout /\ End' = End
    BY <1>1, SameText
  <2>2. Readings(Layout', From(LastWord)', input') = {TRUE}
    BY <1>1, <1>6, <1>7, <2>1 DEF Read
  <2>3. input' \in 1 .. End' /\ hasStatement' = FALSE
    BY <1>1, <1>3, <2>1 DEF StatementInv
  <2>4. QED
    BY <2>2, <2>3 DEF SinceWord, Read
<1>9. QED
  BY <1>1, <1>7, <1>8 DEF LayoutInv

(* The end of the file: of the statement first, then of the tokens.           *)
LEMMA EndOfFileJoins ==
  ASSUME StatementInv, LayoutInv, EndOfFile
  PROVE  LayoutInv'
<1>1. /\ Reads /\ WordsPlaced /\ WordsJoin /\ LinesJoin /\ SinceWord
      /\ mode = "lexing" /\ text' = text /\ input' = input /\ start' = start /\ At(input) = "NUL"
  BY DEF LayoutInv, EndOfFile, Lexing, Current
<1>2. End \in Nat /\ input = End
  BY <1>1, EndFacts DEF SinceWord
<1>3. /\ LastWord \in 0 .. Len(tokens) /\ Len(tokens) \in Nat
      /\ hasStatement => LastWord = Len(tokens)
      /\ \A i \in 0 .. Len(tokens) :
           (i = 0 \/ IsWord(i)) /\ (\A k \in i + 1 .. Len(tokens) : ~IsWord(k)) => i = LastWord
      /\ Read(From(LastWord), End) # {}
  BY <1>1, <1>2, LastWordFacts DEF SinceWord
<1>4. Layout' = Layout /\ End' = End
  BY <1>1, SameText
<1>5. CASE hasStatement
  <2> DEFINE e == Token("EndOfStmt", start', input')
  <2>1. e.kind \notin Words /\ hasStatement' = FALSE /\ tokens' = Append(tokens, e) /\ mode' = "lexing"
    BY <1>1, <1>5 DEF EndOfFile, EndOfStmt, Token, Words
  <2> HIDE DEF e
  <2>2. /\ Reads' /\ WordsPlaced' /\ WordsJoin' /\ LinesJoin'
        /\ Len(tokens') = Len(tokens) + 1 /\ tokens' # <<>>
        /\ \A i \in 1 .. Len(tokens) : tokens'[i] = tokens[i]
    BY <1>1, <2>1, AppendKeeps
  <2>3. LastWord' = LastWord
    <3>1. LastWord' = Len(tokens') - 1
      BY <2>1, <2>2 DEF LastWord
    <3>2. LastWord = Len(tokens) /\ Len(tokens) \in Nat
      BY <1>3, <1>5
    <3>3. QED
      BY <2>2, <3>1, <3>2
  <2>4. LastWord # 0 => tokens'[LastWord] = tokens[LastWord]
    BY <1>3, <2>2
  <2>5. From(LastWord)' = From(LastWord)
    BY <2>3, <2>4 DEF From
  <2>6. Readings(Layout', From(LastWord)', input') # {}
    BY <1>1, <1>2, <1>3, <1>4, <2>5 DEF Read
  <2>7. input' \in 1 .. End' /\ input' = End'
    BY <1>1, <1>2, <1>4 DEF SinceWord
  <2>8. SinceWord'
    BY <2>1, <2>6, <2>7 DEF SinceWord, Read
  <2>9. QED
    BY <2>1, <2>2, <2>8 DEF LayoutInv
<1>6. CASE ~hasStatement
  <2> DEFINE e == Token("EndOfFile", start, input)
  <2>1. e.kind \notin Words /\ tokens' = Append(tokens, e) /\ mode' = "ended"
    BY <1>1, <1>6 DEF EndOfFile, Token, Words
  <2> HIDE DEF e
  <2>2. /\ Reads' /\ WordsPlaced' /\ WordsJoin' /\ LinesJoin'
        /\ Len(tokens') = Len(tokens) + 1 /\ tokens'[Len(tokens) + 1] = e
        /\ \A i \in 0 .. Len(tokens) : From(i)' = From(i)
        /\ \A i \in 1 .. Len(tokens) : tokens'[i] = tokens[i]
    BY <1>1, <2>1, AppendKeeps
  <2>3. ToTheEnd'
    <3>1. SUFFICES ASSUME NEW i \in 0 .. Len(tokens) + 1,
                          i = 0 \/ IsWord(i)', \A k \in i + 1 .. Len(tokens) + 1 : ~IsWord(k)'
                   PROVE  Readings(Layout', From(i)', End') # {}
      <4>1. Len(tokens') + 1 - 1 = Len(tokens) + 1
        BY <1>3, <2>2
      <4>2. QED
        BY <2>2, <3>1, <4>1 DEF ToTheEnd, Neighbours, Read
    <3>2. i # Len(tokens) + 1
      BY <1>3, <2>1, <2>2, <3>1 DEF IsWord
    <3>3. i \in 0 .. Len(tokens)
      BY <1>3, <3>2
    <3>4. i # 0 => IsWord(i)
      BY <1>3, <2>2, <3>1, <3>3 DEF IsWord
    <3>5. \A k \in i + 1 .. Len(tokens) : ~IsWord(k)
      BY <1>3, <2>2, <3>1, <3>3 DEF IsWord
    <3>6. i = LastWord
      BY <1>3, <3>3, <3>4, <3>5
    <3>7. From(i)' = From(LastWord)
      BY <2>2, <3>3, <3>6
    <3>8. QED
      BY <1>3, <1>4, <3>7 DEF Read
  <2>4. QED
    BY <2>1, <2>2, <2>3 DEF LayoutInv
<1>7. QED
  BY <1>5, <1>6

(* An error, after which nothing more is said.                               *)
LEMMA ErrorJoins ==
  ASSUME LayoutInv, NEW what, Error(what)
  PROVE  LayoutInv'
<1>1. Reads /\ WordsPlaced /\ WordsJoin /\ LinesJoin
  BY DEF LayoutInv
<1>2. tokens' = tokens /\ text' = text /\ mode' = "failed"
  BY DEF Error
<1>3. Reads' /\ WordsPlaced' /\ WordsJoin' /\ LinesJoin'
  BY <1>1, <1>2, SameTokens
<1>4. QED
  BY <1>2, <1>3 DEF LayoutInv

(* The words end within the text.                                           *)
LEMMA NumberJoins ==
  ASSUME StatementInv, LayoutInv, mode = "lexing", At(input) \in {"1", "."}, Number,
         At(input) = "." => At(input + 1) = "1"
  PROVE  LayoutInv'
<1> DEFINE whole == After({"1"}, input + 1)
           fraction == After({"1"}, whole + 1)
           isFloat == Current = "." \/ At(whole) = "."
           end == IF isFloat /\ Current # "." THEN fraction ELSE whole
<1>1. Reads /\ input \in 1 .. End /\ End \in Nat /\ input + 1 \in 1 .. End
  <2>1. Reads /\ input \in 1 .. End
    BY DEF LayoutInv, SinceWord
  <2>2. QED
    BY <2>1, EndFacts
<1>2. whole \in input + 1 .. End
  BY <1>1, AfterFacts
<1>3. ASSUME isFloat /\ Current # "." PROVE fraction \in input + 1 .. End
  <2>1. At(whole) = "." /\ whole \in 1 .. End
    BY <1>1, <1>2, <1>3
  <2> HIDE DEF whole
  <2>2. whole + 1 \in whole + 1 .. End /\ whole + 1 \in 1 .. End
    BY <1>1, <2>1, EndFacts
  <2>3. fraction \in whole + 1 .. End
    BY <1>1, <2>2, AfterFacts
  <2>4. QED
    BY <1>1, <1>2, <2>1, <2>3
<1>4. end \in input + 1 .. End
  BY <1>2, <1>3
<1>5. (\E what : Error(what)) \/ Return("Number", end)
  BY DEF Number
<1> HIDE DEF end
<1>6. QED
  BY <1>4, <1>5, ReturnJoins, ErrorJoins DEF Words

(* Before the first token nothing was read.                                  *)
LEMMA InitLayout == Init => LayoutInv
<1> SUFFICES ASSUME Init PROVE LayoutInv
  OBVIOUS
<1>1. Reads /\ input = 1 /\ tokens = <<>> /\ ~hasStatement /\ mode = "lexing"
  BY LexerAssumption DEF Init, Reads
<1>2. End \in Nat /\ 1 \in 1 .. End
  BY <1>1, EndFacts
<1>3. Len(tokens) = 0
  BY <1>1
<1>4. WordsPlaced /\ WordsJoin /\ LinesJoin
  BY <1>3 DEF WordsPlaced, WordsJoin, LinesJoin
<1>5. LastWord = 0 /\ From(LastWord) = 1
  BY <1>1 DEF LastWord, From
<1>6. Read(1, 1) = {FALSE}
  BY <1>1, <1>2, ReadNothing
<1>7. SinceWord
  BY <1>1, <1>2, <1>5, <1>6 DEF SinceWord
<1>8. QED
  BY <1>1, <1>4, <1>7 DEF LayoutInv

(* Every branch of next() keeps the invariant.                                *)
LEMMA NextLayout == StatementInv /\ LayoutInv /\ [Next]_vars => LayoutInv'
<1> SUFFICES ASSUME StatementInv, LayoutInv, [Next]_vars PROVE LayoutInv'
  OBVIOUS
<1>0. ASSUME UNCHANGED vars PROVE LayoutInv'
  <2>1. /\ text' = text /\ tokens' = tokens /\ input' = input
        /\ hasStatement' = hasStatement /\ mode' = mode
    BY <1>0 DEF vars
  <2>2. Reads /\ WordsPlaced /\ WordsJoin /\ LinesJoin
    BY DEF LayoutInv
  <2>3. Reads' /\ WordsPlaced' /\ WordsJoin' /\ LinesJoin' /\ \A i : From(i)' = From(i)
    BY <2>1, <2>2, SameTokens
  <2>4. Layout' = Layout /\ End' = End
    BY <2>1, SameText
  <2>5. LastWord' = LastWord
    BY <2>1 DEF LastWord
  <2>6. From(LastWord)' = From(LastWord)
    BY <2>1, <2>5 DEF From
  <2>7. SinceWord => SinceWord'
    BY <2>1, <2>4, <2>6 DEF SinceWord, Read
  <2>8. ToTheEnd => ToTheEnd'
    <3>1. ASSUME ToTheEnd, NEW i \in 0 .. Len(tokens), Neighbours(i, Len(tokens) + 1)'
          PROVE  Readings(Layout', From(i)', End') # {}
      <4>1. Neighbours(i, Len(tokens) + 1)
        BY <2>1, <3>1 DEF Neighbours, IsWord
      <4>2. Readings(Layout, From(i), End) # {}
        BY <3>1, <4>1 DEF ToTheEnd, Read
      <4>3. QED
        BY <2>3, <2>4, <4>2
    <3>2. QED
      BY <2>1, <3>1 DEF ToTheEnd, Read
  <2>9. QED
    BY <2>1, <2>3, <2>7, <2>8 DEF LayoutInv
<1>1. mode = "lexing" => Reads /\ input \in 1 .. End /\ End \in Nat
  BY EndFacts DEF LayoutInv, SinceWord
<1>2. ASSUME mode = "lexing", At(input) # "NUL"
      PROVE  /\ input + 1 \in input + 1 .. End /\ input + 1 \in 1 .. End
             /\ At(input + 1) # "NUL" => input + 2 \in input + 1 .. End /\ input + 2 \in 1 .. End
  BY <1>1, <1>2, EndFacts
<1>3. ASSUME EndOfFile PROVE LayoutInv'
  BY <1>3, EndOfFileJoins
<1>4. ASSUME LineEnd PROVE LayoutInv'
  BY <1>4, LineEndJoins
<1>5. ASSUME Blank PROVE LayoutInv'
  <2>1. mode = "lexing" /\ At(input) \in {"SP", "TAB"} /\ SkipTo(input + 1)
    BY <1>5 DEF Blank, Lexing, Current
  <2>2. Skipped(input, input + 1) /\ input + 1 \in input + 1 .. End
    BY <1>2, <2>1 DEF Skipped
  <2>3. QED
    BY <2>1, <2>2, SkipJoins
<1>6. ASSUME LineComment PROVE LayoutInv'
  <2> DEFINE q == Upto(FileOrLineEnds, input)
  <2>1. mode = "lexing" /\ At(input) = "'" /\ SkipTo(q)
    BY <1>6 DEF LineComment, Lexing, Current
  <2>2. q \in input .. End /\ At(q) \in FileOrLineEnds /\ OnOneLine(input, q)
    <3>1. "NUL" \in FileOrLineEnds
      BY DEF FileOrLineEnds
    <3>2. QED
      BY <1>1, <2>1, <3>1, UptoFacts DEF OnOneLine
  <2> HIDE DEF q
  <2>3. q # input
    BY <2>1, <2>2 DEF FileOrLineEnds, LineEnds
  <2>4. q \in input + 1 .. End
    BY <1>1, <2>1, <2>2, <2>3
  <2>5. Skipped(input, q)
    BY <2>1, <2>2 DEF Skipped
  <2>6. QED
    BY <2>1, <2>4, <2>5, SkipJoins
<1>7. ASSUME Slash PROVE LayoutInv'
  <2>1. mode = "lexing" /\ At(input) = "/"
    BY <1>7 DEF Slash, Lexing, Current
  <2>2. CASE At(input + 1) = "'"
    <3>1. input + 2 \in 1 .. End /\ input + 2 \in input + 1 .. End
      BY <1>2, <2>1, <2>2
    <3> DEFINE q == CommentEnd(input + 2)
    <3>2. q \in input + 2 .. End /\ q \in CommentRest[input + 2]
      BY <1>1, <2>1, <3>1, CommentEndFacts
    <3>3. SkipTo(q)
      BY <1>7, <2>2 DEF Slash, LookAhead
    <3> HIDE DEF q
    <3>4. q \in input + 1 .. End /\ Skipped(input, q)
      BY <1>1, <2>1, <2>2, <3>2 DEF Skipped
    <3>5. QED
      BY <2>1, <3>3, <3>4, SkipJoins
  <2>3. CASE At(input + 1) # "'"
    <3>1. Return("Operator", input + 1)
      BY <1>7, <2>3 DEF Slash, LookAhead
    <3>2. QED
      BY <1>2, <2>1, <3>1, ReturnJoins DEF Words
  <2>4. QED
    BY <2>2, <2>3
<1>8. ASSUME mode = "lexing", At(input) # "NUL", Return("Identifier", After(IdentifierChars, input + 1))
      PROVE  LayoutInv'
  <2>1. After(IdentifierChars, input + 1) \in input + 1 .. End
    BY <1>1, <1>2, <1>8, AfterFacts DEF IdentifierChars
  <2>2. QED
    BY <1>8, <2>1, ReturnJoins DEF Words
<1>9. ASSUME Underscore PROVE LayoutInv'
  <2>1. mode = "lexing" /\ At(input) = "_"
    BY <1>9 DEF Underscore, Lexing, Current
  <2>2. CASE LookAhead \in IdentifierChars
    BY <1>8, <1>9, <2>1, <2>2 DEF Underscore
  <2>3. CASE LookAhead \notin IdentifierChars
    <3> DEFINE r == Upto(FileOrLineEnds, input)
               q == AfterLineEnd(r)
    <3>1. r \in input .. End /\ At(r) \in FileOrLineEnds /\ OnOneLine(input, r)
      <4>1. "NUL" \in FileOrLineEnds
        BY DEF FileOrLineEnds
      <4>2. QED
        BY <1>1, <2>1, <4>1, UptoFacts DEF OnOneLine
    <3>2. SkipTo(q)
      BY <1>9, <2>3 DEF Underscore, Continuation
    <3> HIDE DEF r
    <3>3. r \in 1 .. End /\ r # input /\ input \in 1 .. End /\ End \in Nat
      <4>1. input \in 1 .. End /\ End \in Nat
        BY <1>1, <2>1
      <4>2. r # input
        BY <2>1, <3>1 DEF FileOrLineEnds, LineEnds
      <4>3. r \in 1 .. End
        BY <3>1, <4>1
      <4>4. QED
        BY <4>1, <4>2, <4>3
    <3>4. q \in r .. End /\ EndsLine(r, q)
      <4>1. q \in r .. End
        BY <1>1, <2>1, <3>3, LineEndFacts
      <4>2. At(r) = "NUL" => q = r
        BY DEF AfterLineEnd
      <4>3. QED
        BY <3>1, <4>1, <4>2 DEF EndsLine, FileOrLineEnds
    <3> HIDE DEF q
    <3>5. r \in input .. q /\ q \in input + 1 .. End
      BY <3>1, <3>3, <3>4
    <3>6. Skipped(input, q)
      BY <2>1, <3>1, <3>4, <3>5 DEF Skipped
    <3>7. QED
      BY <2>1, <3>2, <3>5, <3>6, SkipJoins
  <2>4. QED
    BY <2>2, <2>3
<1>10. ASSUME Identifier PROVE LayoutInv'
  BY <1>8, <1>10 DEF Identifier, Lexing, Current
<1>11. ASSUME Operator PROVE LayoutInv'
  <2>1. mode = "lexing" /\ At(input) # "NUL"
    BY <1>11 DEF Operator, Lexing, Current, Operators
  <2>2. CASE <<Current, LookAhead>> \in TwoCharOperators
    <3>1. At(input + 1) # "NUL" /\ Return("Operator", input + 2)
      BY <1>11, <2>2 DEF Operator, TwoCharOperators, LookAhead
    <3>2. QED
      BY <1>2, <2>1, <3>1, ReturnJoins DEF Words
  <2>3. CASE <<Current, LookAhead>> \notin TwoCharOperators
    <3>1. Return("Operator", input + 1)
      BY <1>11, <2>3 DEF Operator
    <3>2. QED
      BY <1>2, <2>1, <3>1, ReturnJoins DEF Words
  <2>4. QED
    BY <2>2, <2>3
<1>12. ASSUME Digit PROVE LayoutInv'
  BY <1>12, NumberJoins DEF Digit, Lexing, Current
<1>13. ASSUME Dot PROVE LayoutInv'
  <2>1. mode = "lexing" /\ At(input) = "."
    BY <1>13 DEF Dot, Lexing, Current
  <2>2. CASE LookAhead = "." /\ At(input + 2) = "."
    <3>1. Return("Operator", input + 3)
      BY <1>13, <2>2 DEF Dot
    <3>2. input + 2 \in 1 .. End
      BY <1>2, <2>1, <2>2 DEF LookAhead
    <3>3. input + 3 \in input + 1 .. End
      <4>1. input + 2 + 1 \in input + 2 + 1 .. End
        BY <1>1, <2>1, <2>2, <3>2, EndFacts
      <4>2. QED
        BY <1>1, <2>1, <4>1
    <3>4. QED
      BY <2>1, <3>1, <3>3, ReturnJoins DEF Words
  <2>3. CASE LookAhead = "." /\ At(input + 2) # "."
    <3>1. Error("invalid")
      BY <1>13, <2>3 DEF Dot
    <3>2. QED
      BY <3>1, ErrorJoins
  <2>4. CASE LookAhead = "1"
    <3>1. Number /\ At(input + 1) = "1"
      BY <1>13, <2>4 DEF Dot, LookAhead
    <3>2. QED
      BY <2>1, <3>1, NumberJoins
  <2>5. CASE LookAhead \notin {".", "1"}
    <3>1. Return("Operator", input + 1)
      BY <1>13, <2>5 DEF Dot
    <3>2. QED
      BY <1>2, <2>1, <3>1, ReturnJoins DEF Words
  <2>6. QED
    BY <2>2, <2>3, <2>4, <2>5
<1>14. ASSUME String PROVE LayoutInv'
  <2> DEFINE stop == ScanString(input + 1).stop
             to == IF At(stop) \in {"\"", "\\"} THEN stop + 1 ELSE stop
  <2>1. mode = "lexing" /\ At(input) = "\"" /\ Return("String", to)
    BY <1>14 DEF String, Lexing, Current
  <2>2. stop \in input + 1 .. End
    BY <1>1, <1>2, <2>1, ScanStringFacts
  <2> HIDE DEF stop
  <2>3. stop \in 1 .. End /\ input \in 1 .. End /\ End \in Nat
    <3>1. input \in 1 .. End /\ End \in Nat
      BY <1>1, <2>1
    <3>2. QED
      BY <2>2, <3>1
  <2>4. At(stop) \in {"\"", "\\"} => stop + 1 \in stop + 1 .. End
    BY <1>1, <2>1, <2>3, EndFacts
  <2>5. to \in input + 1 .. End
    <3>1. CASE At(stop) \in {"\"", "\\"}
      <4>0. stop + 1 \in stop + 1 .. End
        BY <2>4, <3>1
      <4>1. stop + 1 \in input + 1 .. End
        BY <2>2, <2>3, <4>0
      <4>2. to = stop + 1
        BY <3>1
      <4>3. QED
        BY <4>1, <4>2
    <3>2. CASE At(stop) \notin {"\"", "\\"}
      BY <2>2, <3>2
    <3>3. QED
      BY <3>1, <3>2
  <2> HIDE DEF to
  <2>6. QED
    BY <2>1, <2>5, ReturnJoins DEF Words
<1>15. ASSUME Other PROVE LayoutInv'
  BY <1>15, ErrorJoins DEF Other
<1>16. ASSUME Finished PROVE LayoutInv'
  BY <1>0, <1>16 DEF Finished
<1>17. QED
  BY <1>0, <1>3, <1>4, <1>5, <1>6, <1>7, <1>9, <1>10, <1>11, <1>12, <1>13, <1>14, <1>15, <1>16 DEF Next

(* Whatever the text, the lexer passes over nothing but layout, knows when a  *)
(* line ends, and its words are in the order of the text.                    *)
THEOREM LayoutInvHolds == Spec => [](StatementInv /\ LayoutInv)
<1>1. Init => StatementInv /\ LayoutInv
  BY InitStatement, InitLayout
<1>2. StatementInv /\ LayoutInv /\ [Next]_vars => (StatementInv /\ LayoutInv)'
  BY NextStatement, NextLayout
<1>3. QED
  BY <1>1, <1>2, PTL DEF Spec

(* So a file that is read to its end is words and layout, and nothing else    *)
(* (Lexer::next: what it passes over are blanks, comments, continuations).   *)
THEOREM NothingLostHolds == Spec => []NothingLost
<1>1. LayoutInv => NothingLost
  <2> SUFFICES ASSUME LayoutInv, mode = "ended",
                      NEW i \in 0 .. Len(tokens), NEW j \in i + 1 .. Len(tokens) + 1, Neighbours(i, j)
               PROVE  Read(From(i), IF j > Len(tokens) THEN End ELSE tokens[j].from) # {}
    BY DEF NothingLost, Read, From
  <2>1. CASE j > Len(tokens)
    <3>1. Neighbours(i, Len(tokens) + 1)
      BY <2>1 DEF Neighbours
    <3>2. QED
      BY <2>1, <3>1 DEF LayoutInv, ToTheEnd
  <2>2. CASE ~(j > Len(tokens))
    <3>1. j \in i + 1 .. Len(tokens)
      BY <2>2
    <3>2. QED
      BY <2>2, <3>1 DEF LayoutInv, WordsJoin
  <2>3. QED
    BY <2>1, <2>2
<1>2. QED
  BY LayoutInvHolds, <1>1, PTL

(* And two words are in one statement exactly when no line ends between them  *)
(* (Lexer::next, endOfStmt).                                                *)
THEOREM LinesAreStatementsHolds == Spec => []LinesAreStatements
<1>1. LayoutInv => LinesAreStatements
  BY DEF LayoutInv, LinesJoin, LinesAreStatements, Read
<1>2. QED
  BY LayoutInvHolds, <1>1, PTL
=============================================================================
