------------------------------- MODULE MCParser -------------------------------
(* Every expression of up to MaxLength tokens, and longer ones in which       *)
(* operands - names, negated or cast ones, calls, groups - and operators      *)
(* alternate; every kind of literal, alone and beside another; every program  *)
(* of up to three of the lines below; and each line with any token in the     *)
(* place of one of its own, or cut short there.                              *)
EXTENDS Grammar

CONSTANT MaxLength

MCKinds == {"id", "1", "(", ")", ",", "=", "+", "*", ".", "NOT", "AS", "T"}
Upto(n) == UNION {[1 .. k -> MCKinds] : k \in 1 .. n}
Short == Upto(MaxLength) \cup {Append(t, "Invalid") : t \in Upto(MaxLength - 1)}

Terms == {<<"id">>, <<"NOT", "id">>, <<"*", "id">>, <<"id", "AS", "T">>,
          <<"id", "(", "id", ",", "1", ")">>, <<"(", "id", ")">>}
Infixes == {<<"=">>, <<"+">>, <<"*">>, <<".">>}
Long == {a \o i \o b \o j \o c \o k \o d :
           a \in Terms, b \in Terms, c \in Terms, d \in {<<"id">>, <<"id", "(", ")">>},
           i \in Infixes, j \in Infixes, k \in Infixes}

TwoLiterals ==
  {<<"DIM", "id", "=", k, ",", "id", "=", l, "EndOfStmt", "id", k>> : k \in Literals, l \in Literals}
    \cup {<<"id", "=", "NOT", k, "+", l>> : k \in Literals, l \in Literals}
    \cup {<<k, "=", l>> : k \in Literals, l \in Literals}

Types == UNION {[1 .. n -> {"T", "ANY", "PTR", "CONST", "REF"}] : n \in 1 .. 4}
TypeLines == {<<"DIM", "id", "AS">> \o t : t \in Types}
               \cup {<<"id", "=", "id", "AS">> \o t \o <<"+", "1">> : t \in Types}

Lines == {
  <<"DIM", "id", "=", "id", "=", "1", ",", "id", "AS", "T", "=", "C">>,
  <<"DECLARE", "SUB", "id">>, <<"DECLARE", "FUNCTION", "id", "(", "id", "AS", "T", ",", "...", ")", "AS", "T">>,
  <<"SUB", "id", "(", "id", "AS", "T", ",", "id", "AS", "T", "PTR", ")">>, <<"SUB", "id">>,
  <<"FUNCTION", "id", "(", ")", "AS", "T", "REF">>,
  <<"RETURN">>, <<"RETURN", "id">>,
  <<"EXTERN", "C">>, <<"EXTERN", "C", "DECLARE", "SUB", "id">>,
  <<"END", "SUB">>, <<"END", "FUNCTION">>, <<"END", "EXTERN">>,
  <<"id", "1", ",", "id">>, <<"*", "id", "=", "id", "(", "1", ")">>}

EOS == <<"EndOfStmt">>
Programs ==
  {<<>>} \cup Lines \cup {a \o EOS \o b : a \in Lines, b \in Lines}
    \cup {a \o EOS \o b \o EOS \o c : a \in Lines, b \in Lines, c \in Lines}
    \cup {<<"SUB", "id">> \o EOS \o a \o EOS \o b \o EOS \o c \o EOS \o <<"END", "SUB">> :
            a \in Lines, b \in Lines, c \in Lines}

AnyKind == MCKinds \cup {"DIM", "DECLARE", "SUB", "FUNCTION", "RETURN", "EXTERN", "END", "EndOfStmt",
                         "C", "S", "...", "PTR", "REF", "CONST", "ANY", "Invalid"}
Whole == {a \in Lines : a[1] \notin {"SUB", "FUNCTION", "END"} /\ a # <<"EXTERN", "C">>}
           \cup {<<"SUB", "id", "(", "id", "AS", "T", ")", "EndOfStmt", "RETURN", "EndOfStmt", "END", "SUB">>,
                 <<"EXTERN", "C", "EndOfStmt", "DECLARE", "SUB", "id", "EndOfStmt", "END", "EXTERN">>}
Changed == UNION {{[t EXCEPT ![i] = k] : i \in 2 .. Len(t) - 1, k \in AnyKind} : t \in Whole}
             \cup UNION {{Append(SubSeq(t, 1, i), k) : i \in 0 .. Len(t), k \in AnyKind \ {"EndOfStmt"}} : t \in Whole}

MCTexts == Short \cup Long \cup TwoLiterals \cup TypeLines \cup Programs \cup Changed
=============================================================================
