----------------------------- MODULE LabelIndex -----------------------------
(***************************************************************************)
(* How LoadDataFromDatabase (master/tasks.go) numbers the labels of users, *)
(* and in the same way those of items: a label that occurs only once tells *)
(* nothing and gets no number; at its second occurrence it is numbered and *)
(* also given to the owner that had it first.                              *)
(*                                                                         *)
(* Owners come one after the other, as the stream of the data store        *)
(* delivers them.  The labels of an owner are the names that ConvertLabels *)
(* makes of its strings, at most MaxLabels, the same one twice if the      *)
(* labels say it twice.  Their value is always 1: ConvertLabels keeps      *)
(* numbers only as json.Number, and every data store reads them back as    *)
(* float64.                                                                *)
(***************************************************************************)
EXTENDS Naturals, Sequences, FiniteSets, SequencesExt

CONSTANTS NOwners, LabelNames, MaxLabels

VARIABLES features, owner, pos, count, first, index, out

labelVars == <<features, owner, pos, count, first, index, out>>

Owners == 1 .. NOwners

LabelInit ==
  /\ features \in [Owners -> UNION {[1 .. k -> LabelNames] : k \in 0 .. MaxLabels}]
  /\ owner = 1 /\ pos = 1
  /\ count = [n \in LabelNames |-> 0]
  /\ first = [n \in LabelNames |-> 0]
  /\ index = <<>>
  /\ out = [o \in Owners |-> <<>>]

Name == features[owner][pos]
Add(n) == IF n \in Range(index) THEN index ELSE Append(index, n)

(* The second occurrence: the first owner gets the label, and then the     *)
(* second owner, which may be the same.                                    *)
Second ==
  LET o1 == [out EXCEPT ![first[Name]] = Append(@, Name)]
  IN [o1 EXCEPT ![owner] = Append(@, Name)]

LoadLabel ==
  /\ owner <= NOwners /\ pos <= Len(features[owner])
  /\ count' = [count EXCEPT ![Name] = @ + 1]
  /\ first' = [first EXCEPT ![Name] = IF count'[Name] = 1 THEN owner ELSE @]
  /\ index' = IF count'[Name] = 2 THEN Add(Name) ELSE index
  /\ out' = CASE count'[Name] = 1 -> out
              [] count'[Name] = 2 -> Second
              [] OTHER -> [out EXCEPT ![owner] = Append(@, Name)]
  /\ pos' = pos + 1
  /\ UNCHANGED <<features, owner>>

NextOwner ==
  /\ owner <= NOwners /\ pos > Len(features[owner])
  /\ owner' = owner + 1
  /\ pos' = 1
  /\ UNCHANGED <<features, count, first, index, out>>

LabelNext == LoadLabel \/ NextOwner
LabelSpec == LabelInit /\ [][LabelNext]_labelVars

-----------------------------------------------------------------------------
AllRead == owner > NOwners
Occurrences(n, s) == Len(SelectSeq(s, LAMBDA l : l = n))

(* When all owners are read, a label has a number exactly if it occurs at   *)
(* least twice, and then every owner that has it, the first one too, has it *)
(* as often as its labels say.                                              *)
SharedLabelsIndexed ==
  AllRead => \A n \in LabelNames :
    /\ n \in Range(index) <=> \E o, p \in Owners :
         IF o = p THEN Occurrences(n, features[o]) >= 2
         ELSE Occurrences(n, features[o]) >= 1 /\ Occurrences(n, features[p]) >= 1
    /\ \A o \in Owners :
         Occurrences(n, out[o])
           = IF n \in Range(index) THEN Occurrences(n, features[o]) ELSE 0
=============================================================================
