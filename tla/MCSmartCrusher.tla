---------------------------- MODULE MCSmartCrusher ----------------------------
(***************************************************************************)
(* Small JSON: log records with levels and messages, one of an error; rows *)
(* with scores; a series whose value jumps; short rows with objects, lists *)
(* and blanks; texts, numbers and a list outside of objects.  One is ten.  *)
(***************************************************************************)
EXTENDS SmartCrusher

T(length, print) ==
  [alarm |-> FALSE, length |-> length, uuid |-> FALSE, entropy |-> 50, date |-> FALSE,
   message |-> FALSE, start |-> "plain", mentions |-> FALSE, print |-> print]

\* Seconds and milliseconds since 1970 with the gap between them.
MCEpochSeconds == 1000 .. 2000
MCEpochMillis  == 1000000 .. 2000000

MCFieldOrder == <<"a", "lvl", "meta", "msg", "ts", "val">>

MCText ==
  [a    |-> T(1, {}), lvl |-> [T(3, {}) EXCEPT !.message = TRUE], meta |-> T(4, {}),
   msg  |-> T(3, {}), ts |-> T(2, {}), val |-> T(3, {}),
   info |-> T(4, {1}), warn |-> T(4, {2}),
   m1   |-> [T(40, {3, 4, 5}) EXCEPT !.start = "m"], m2 |-> [T(40, {6, 7, 8}) EXCEPT !.start = "m"],
   m3   |-> [T(44, {9, 10, 11}) EXCEPT !.mentions = TRUE],
   oops |-> [T(48, {12, 13}) EXCEPT !.alarm = TRUE],
   day  |-> [T(30, {14}) EXCEPT !.date = TRUE],
   l1   |-> T(6, {}), l2 |-> T(9, {})]

Str(s) == <<"str", s>>
Num(n) == <<"number", n>>
Log(l, m)   == <<"dict", [lvl |-> Str(l), msg |-> Str(m)]>>
Hit(m, n)   == <<"dict", [msg |-> Str(m), val |-> Num(n)]>>
Point(n)    == <<"dict", [ts |-> Str("day"), val |-> Num(n)]>>
Short(v)    == <<"dict", [lvl |-> Str("info"), meta |-> v]>>
Obj(f)      == <<"dict", f>>

MCChunks ==
  { <<Log("info", "m1"), Log("info", "m2")>>,
    <<Log("info", "m3"), Log("info", "m1"), Log("info", "m1")>>,
    <<Log("warn", "oops"), Log("info", "m2")>>,
    <<Hit("m1", 9), Hit("m2", 7)>>,
    <<Hit("m3", 7), Hit("m1", 3), Hit("oops", 1)>>,
    <<Point(10), Point(10)>>,
    <<Obj([val |-> Num(1000)]), Obj([val |-> Num(1500)])>>,
    <<Point(900), Point(900), Point(900)>>,
    <<Short(Obj([a |-> Num(10), val |-> Str("info")])), Short(Obj([a |-> Num(15), val |-> Str("warn")]))>>,
    <<Short(Obj([a |-> Num(10)])), Obj([lvl |-> Str("info"), val |-> <<"bool", TRUE>>])>>,
    <<Obj([lvl |-> Str("info"), val |-> Str("warn")]), Obj([lvl |-> Str("info"), val |-> <<"bool", TRUE>>])>>,
    <<Short(<<"list", "l1">>), Short(Null)>>,
    <<Str("m1"), Str("info"), Str("oops")>>,
    <<Str("m2"), Str("m2")>>,
    <<Num(10), Num(20)>>,
    <<Num(20), Num(900), Num(20)>>,
    <<Null, <<"list", "l2">>>> }

MCMembers ==
  { <<"a", Str("info")>>, <<"lvl", Str("m1")>>, <<"meta", Obj([msg |-> Str("oops")])>>,
    <<"msg", Str("m2")>>, <<"ts", Str("oops")>>, <<"val", Num(10)>>, <<"val", Str("m3")>>,
    <<"msg", Str("oops")>>, <<"ts", Str("day")>> }

MCKeyBefore(k, l) ==
  LET place(v) ==
        CASE v[1] = "whole"  -> <<1, v[2]>>
          [] v[1] = "number" -> <<2, v[2]>>
          [] v[1] = "str"    -> <<3, Text[v[2]].length + CHOOSE n \in 0 .. 20 : \A m \in Text[v[2]].print : n <= m>>
          [] v[1] = "bool"   -> <<4, 0>>
          [] v[1] = "list"   -> <<5, Text[v[2]].length>>
          [] v[1] = "dict"   -> <<6, Cardinality(DOMAIN v[2])>>
          [] OTHER           -> <<7, 0>>
  IN place(k)[1] < place(l)[1] \/ (place(k)[1] = place(l)[1] /\ place(k)[2] < place(l)[2])

NoQuery   == [asks |-> FALSE, recent |-> FALSE, historic |-> FALSE]
MCCallers ==
  { [alarms |-> TRUE, query |-> NoQuery, bias |-> 0],
    [alarms |-> FALSE, query |-> NoQuery, bias |-> 0],
    [alarms |-> FALSE, query |-> [asks |-> TRUE, recent |-> TRUE, historic |-> FALSE], bias |-> 0],
    [alarms |-> TRUE, query |-> NoQuery, bias |-> 100] }
=============================================================================
