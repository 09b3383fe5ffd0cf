------------------------ MODULE MCTokenizerRegistry ------------------------
(***************************************************************************)
(* Small instances of TokenizerRegistry: a model of tiktoken's and one that *)
(* only a registration knows.                                              *)
(***************************************************************************)
EXTENDS TokenizerRegistry, TLC

MCModels   == {"gpt", "claude"}
MCKnown    == {"gpt"}
MCEncoding == [m \in MCKnown |-> "o200k"]
=============================================================================
