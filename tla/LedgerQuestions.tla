------------------------------ MODULE LedgerQuestions ------------------------------
(* The tables of the ledger (db/schema.sql) under writes, the views over    *)
(* them (db/routines.sql) and the questions of `maghz ledger`               *)
(* (admin/rails.py), which ask the tables again in SQL of their own.        *)
EXTENDS Integers, FiniteSets

CONSTANTS
  Domains, Concepts, Uris,
  MaxWrites  \* bound: writes

VARIABLES
  domain,   \* the domains
  concept,  \* each concept's domain, NoDomain for one that is not there
  embedded, \* the concepts with an embedding
  evidence, \* pairs of a concept and a uri
  tally,    \* maghz.concept_tally, maintained by its triggers
  writes    \* counted for the bound

tableVars == <<domain, concept, embedded, evidence, tally, writes>>

NoDomain == "none"
NoUri    == "null"

ASSUME TablesAssumption ==
  IsFiniteSet(Concepts) /\ NoDomain \notin Domains /\ NoUri \notin Uris

Existing == {c \in Concepts : concept[c] # NoDomain}
InDomain(d) == {c \in Concepts : concept[c] = d}

TablesInit ==
  /\ domain = {} /\ embedded = {} /\ evidence = {} /\ writes = 0
  /\ concept = [c \in Concepts |-> NoDomain]
  /\ tally = [d \in Domains |-> [concept_count |-> 0, embedded_count |-> 0]]

Counted(d, concepts, embeddings) ==
  [tally EXCEPT ![d] = [concept_count |-> @.concept_count + concepts,
                        embedded_count |-> @.embedded_count + embeddings]]

IsEmbedded(c) == IF c \in embedded THEN 1 ELSE 0

InsertDomain(d) ==
  /\ d \notin domain
  /\ domain' = domain \cup {d}
  /\ UNCHANGED <<concept, embedded, evidence, tally>>

(* ON DELETE RESTRICT of concept.domain_id.                                 *)
DeleteDomain(d) ==
  /\ d \in domain /\ InDomain(d) = {}
  /\ domain' = domain \ {d}
  /\ UNCHANGED <<concept, embedded, evidence, tally>>

InsertConcept(c, d) ==
  /\ concept[c] = NoDomain /\ d \in domain
  /\ concept' = [concept EXCEPT ![c] = d]
  /\ tally' = Counted(d, 1, 0)
  /\ UNCHANGED <<domain, embedded, evidence>>

(* Faulty variant: the row's old domain keeps it.                           *)
MoveCopied(c, d) ==
  /\ concept[c] \notin {NoDomain, d} /\ d \in domain
  /\ concept' = [concept EXCEPT ![c] = d]
  /\ tally' = Counted(d, 1, IsEmbedded(c))
  /\ UNCHANGED <<domain, embedded, evidence>>

Move(c, d) ==
  /\ concept[c] \notin {NoDomain, d} /\ d \in domain
  /\ concept' = [concept EXCEPT ![c] = d]
  /\ tally' = [Counted(d, 1, IsEmbedded(c)) EXCEPT
                 ![concept[c]] = [concept_count |-> @.concept_count - 1,
                                  embedded_count |-> @.embedded_count - IsEmbedded(c)]]
  /\ UNCHANGED <<domain, embedded, evidence>>

(* ON DELETE CASCADE of evidence.concept_id.                                *)
DeleteConcept(c) ==
  /\ c \in Existing
  /\ concept' = [concept EXCEPT ![c] = NoDomain]
  /\ tally' = Counted(concept[c], -1, -IsEmbedded(c))
  /\ embedded' = embedded \ {c}
  /\ evidence' = {e \in evidence : e[1] # c}
  /\ UNCHANGED domain

Embed(c) ==
  /\ c \in Existing \ embedded
  /\ embedded' = embedded \cup {c}
  /\ tally' = Counted(concept[c], 0, 1)
  /\ UNCHANGED <<domain, concept, evidence>>

(* A uri is cited once by a concept.                                        *)
Cite(c, u) ==
  /\ c \in Existing /\ <<c, u>> \notin evidence
  /\ evidence' = evidence \cup {<<c, u>>}
  /\ UNCHANGED <<domain, concept, embedded, tally>>

TablesNext ==
  /\ writes < MaxWrites /\ writes' = writes + 1
  /\ \/ \E d \in Domains : InsertDomain(d) \/ DeleteDomain(d)
     \/ \E c \in Concepts, d \in Domains : InsertConcept(c, d) \/ Move(c, d)
     \/ \E c \in Concepts : DeleteConcept(c) \/ Embed(c)
     \/ \E c \in Concepts, u \in Uris : Cite(c, u)

TablesSpec == TablesInit /\ [][TablesNext]_tableVars

-------------------------------------------------------------------------------
(* The views.  A domain without concepts has no tally row, which reads 0.   *)
unsupported_concept == {c \in Existing : \A u \in Uris : <<c, u>> \notin evidence}

domain_coverage(d) ==
  [concept_count     |-> tally[d].concept_count,
   embedded_count    |-> tally[d].embedded_count,
   unsupported_count |-> Cardinality(unsupported_concept \cap InDomain(d))]

(* The questions.  A left join has a row for each match, or one with a null *)
(* side; count(c.id) counts rows, and those of NEXT are pairs.              *)
JoinEvidence(d) ==
  {r \in InDomain(d) \X (Uris \cup {NoUri}) :
     r \in evidence \/ (r[2] = NoUri /\ \A u \in Uris : <<r[1], u>> \notin evidence)}

COVERAGE(d) == Cardinality(InDomain(d))
GAPS        == {r[1] : r \in {x \in UNION {JoinEvidence(d) : d \in domain} : x[2] = NoUri}}
NEXT(d) ==
  [concepts    |-> Cardinality(JoinEvidence(d)),
   unevidenced |-> Cardinality({r \in JoinEvidence(d) : r[2] = NoUri})]

-------------------------------------------------------------------------------
(* A question and the view that answers the same thing agree after any      *)
(* sequence of writes: the incremental tally with the count over the        *)
(* tables, the join's gaps with NOT EXISTS, and the unevidenced of NEXT     *)
(* with the coverage view (rails.py 359-388, routines.sql 351-398).         *)
QuestionsAgree ==
  /\ GAPS = unsupported_concept
  /\ \A d \in domain :
       LET row == domain_coverage(d)
       IN /\ COVERAGE(d) = row.concept_count
          /\ NEXT(d).unevidenced = row.unsupported_count
          /\ row.embedded_count = Cardinality(embedded \cap InDomain(d))
================================================================================
