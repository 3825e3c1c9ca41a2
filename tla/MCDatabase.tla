----------------------------- MODULE MCDatabase -----------------------------
(***************************************************************************)
(* What SQL promises a caller: a behaviour is one of the log and the pages *)
(* under crashes (Durability), of INSERT, UPDATE, DELETE and indexes on a  *)
(* table (Statements), of SELECTs on filled tables (Queries), of statements*)
(* as they are read (Sentences), or of values as they are bound (Binding). *)
(***************************************************************************)
EXTENDS Durability, MCStatements, MCQueries, MCTexts

VARIABLE part

databaseVars == <<part, vars, stmtVars, queryVars, sentenceVars, bindVars>>

DatabaseInit ==
  /\ part \in {"log", "rows", "query", "text", "bind"}
  /\ Init /\ StmtInit /\ SentenceInit
  /\ QueryInit /\ (part # "query" => indexes = {} /\ leftover = {})
  /\ BindInit /\ (part # "bind" => template = InsertOne /\ column = "Int")

DatabaseNext ==
  \/ part = "log" /\ Next /\ UNCHANGED <<part, stmtVars, queryVars, sentenceVars, bindVars>>
  \/ part = "rows" /\ StmtNext /\ UNCHANGED <<part, vars, queryVars, sentenceVars, bindVars>>
  \/ part = "query" /\ QueryNext /\ UNCHANGED <<part, vars, stmtVars, sentenceVars, bindVars>>
  \/ part = "text" /\ SentenceNext /\ UNCHANGED <<part, vars, stmtVars, queryVars, bindVars>>
  \/ part = "bind" /\ BindNext /\ UNCHANGED <<part, vars, stmtVars, queryVars, sentenceVars>>

DatabaseSpec == DatabaseInit /\ [][DatabaseNext]_databaseVars
=============================================================================
