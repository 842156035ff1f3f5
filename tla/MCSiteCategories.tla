-------------------------- MODULE MCSiteCategories --------------------------
(* Two categories of the CMS with three slugs, of which both may have the   *)
(* second; a draft that asks for a static alias of the third and hints at   *)
(* the second, and gets the first while there are only default rows.        *)
EXTENDS SiteCategories

CONSTANTS worker, admin, draft

MCMayHave == [i \in Ids |-> {i, i + 1}]
MCStatic == [a \in {4} |-> 3]
MCBootstrap == [i \in {1} |-> 1]
MCSuggested == [d \in Drafts |-> 4]
MCHints == [d \in Drafts |-> <<2>>]
=============================================================================
