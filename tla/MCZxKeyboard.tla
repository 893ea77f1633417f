---------------------------- MODULE MCZxKeyboard ----------------------------
(* Instances of ZxKeyboard: "a" in the last byte, CS and "b" in the first. *)
EXTENDS ZxKeyboard

MCRow == [k \in Keys |-> IF k = "a" THEN Rows - 1 ELSE 0]

\* A key alone, a shift alone, one that presses both, and ESC.
PsMap ==
  [x \in {"A", "Shift", "Left", "Esc"} |->
     CASE x = "A"     -> <<"a">>
       [] x = "Shift" -> <<"cs">>
       [] x = "Left"  -> <<"cs", "a">>
       [] x = "Esc"   -> <<CLRKYS>>]

MCKbMap == [x \in Scancodes |-> PsMap[x]]

User1(ps2, matrix, errors) == [ps2 |-> ps2, matrix |-> matrix, errors |-> errors]
MCUsers == {User1(3, 0, TRUE), User1(0, 5, FALSE)}
TypistWithErrors == {User1(2, 0, TRUE)}
=============================================================================
