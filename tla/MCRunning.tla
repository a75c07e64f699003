------------------------------ MODULE MCRunning ------------------------------
(* A TLC instance of Running: three tasks for two threads; two deliveries  *)
(* of a first attempt and one of the second; two deliveries that record    *)
(* usage on one attempt; two callers of a bucket.                          *)
EXTENDS Running, TLC

SameClocks == [c \in Callers |-> 0]

Deliveries == {<<1, 1>>, <<1, 2>>, <<2, 1>>}
AllDo ==
  <<1, 1>> :> {"report", "record", "spend"} @@ <<1, 2>> :> {"report", "record"}
    @@ <<2, 1>> :> {"report", "spend"}
FirstRecord == [r \in Deliveries |-> IF r[1] = 1 THEN {"record"} ELSE {}]
=============================================================================
