----------------------- MODULE SituationAIProperties -----------------------
(***************************************************************************)
(* What the asynchronous AI results do, and do not do, to the hierarchy.   *)
(***************************************************************************)
EXTENDS SituationAI

(* A result for a situation that is gone by the time it arrives does not   *)
(* bring it back into the hierarchy, as parent or as child.                *)
StaleResultsHarmless == NoDanglingParent

Forest  == Tree!IsForest(live, parent)
Twisted == {c \in live : parent[c] = c}

(* Whatever hierarchy the results leave behind, a tick does not make a     *)
(* cycle where there is none, an unmerge does not, and neither does a      *)
(* batch consolidation of distinct situations.  Only two results can: a    *)
(* title that makes a situation duplicate one above it, and a group that   *)
(* names its largest situation twice.                                      *)
ForestBrokenOnlyBy ==
    [][ Forest /\ ~Forest' =>
          \/ \E c \in titling \ titling', dup \in TopLevel :
                parent[c] # NoParent /\ parent'[dup] = c
          \/ applying # {} /\ Twisted' # {} ]_aivars

(* The caps and the rejections hold in the merge passes of a tick also     *)
(* when titles, which look at neither, have rearranged the hierarchy; and  *)
(* batch consolidation stays within the cap itself, also when the answer   *)
(* is applied to situations that gained children since it was asked for.   *)
LimitsHonoured ==
    [][ /\ stage \in {"merge", "topic", "country"} =>
              /\ JoinsWithinCap
              /\ \A c \in live :
                    parent[c] = NoParent /\ parent'[c] # NoParent
                        => {c, parent'[c]} \notin rejected'
        /\ applying # {} => CappedAt(MaxChildren) ]_aivars
=============================================================================
