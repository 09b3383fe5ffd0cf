--------------------------- MODULE MCLogCompressor ---------------------------
(***************************************************************************)
(* Small logs: an error, failures and warnings with numbers in them, a     *)
(* Python trace and what follows it, frames of Go, summaries and blanks.   *)
(***************************************************************************)
EXTENDS LogCompressor

Line(tokens) == [indent |-> FALSE, tokens |-> tokens, count |-> 0]

MCTokens == {"ERROR", "FAIL", "WARN:", "job", "1", "2", "Traceback", "0x1", "at", "at last",
             "===", "Total",
             "omitted", "marker", Wildcard, Opening}

MCWord ==
  [t \in MCTokens |-> CASE t = "ERROR" -> "error" [] t = "FAIL" -> "fail" [] t = "WARN:" -> "warn"
                        [] OTHER -> "none"]

MCStart ==
  [t \in MCTokens |-> CASE t \in {"ERROR", "FAIL", "WARN:"} -> "upper"
                        [] t \in {"1", "2"} -> "digit"
                        [] t = "Traceback" -> "traceback" [] t = "0x1" -> "address"
                        [] t = "at" -> "at" [] t = "at last" -> "at line"
                        [] t = "===" -> "rule" [] t = "Total" -> "total"
                        [] OTHER -> "other"]

MCSeparating == {"WARN:"}

MCNormal == [t \in MCTokens |-> IF t \in {"1", "2"} THEN "N" ELSE t]

MCPrint ==
  [t \in MCTokens |-> CASE t = "ERROR" -> {1, 2} [] t = "FAIL" -> {3, 4} [] t = "job" -> {5}
                        [] t = "Traceback" -> {2, 6} [] OTHER -> {}]

MCChunks ==
  { <<Line(<<"ERROR", "job", "1">>)>>,
    <<Line(<<"FAIL", "job", "1">>), Line(<<"FAIL", "job", "2">>)>>,
    <<Line(<<"WARN:", "job", "1">>), Line(<<"WARN:", "job", "2">>)>>,
    <<[Line(<<"job", "1">>) EXCEPT !.indent = TRUE], Line(<<"job", "2">>)>>,
    <<Line(<<"job", "at", "1">>), Line(<<"job", "at", "2">>), Line(<<"job", "at", "1">>)>>,
    <<Line(<<"Traceback">>), [Line(<<"at">>) EXCEPT !.indent = TRUE]>>,
    <<Line(<<"Traceback">>), Line(<<"Total", "WARN:", "1">>)>>,
    <<Line(<<"0x1">>), Line(<<"1", "job">>), Line(<<"2", "job">>)>>,
    <<Line(<<"at">>), Line(<<"at last">>)>>,
    <<Line(<<"===">>)>>,
    <<Line(<< >>)>> }
=============================================================================
