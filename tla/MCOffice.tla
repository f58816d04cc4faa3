------------------------------ MODULE MCOffice ------------------------------
(* The work of the office: at one desk the catalogue, at another the bot      *)
(* that links chats, at a third the sign-in.  They share nothing, so a        *)
(* behaviour has one desk at work.                                            *)
EXTENDS Catalogue, Linking, Access

CONSTANTS a, b, g, h, h1, h2, u1, u2, m, p1

VARIABLE desk

Blank == [kind |-> "blank"]
Bad == [kind |-> "bad"]

(* Rows in two orders, with and without groups, blank, wrong, twice the same  *)
(* name, too many.                                                            *)
MCFiles ==
  { <<Row(b, None, None, 0), Row(a, None, None, 1)>>,
    <<Row(a, g, h, 1), Row(b, None, None, 0)>>,
    <<Row(b, h, None, 0), Blank, Row(a, g, h, 2)>>,
    <<Bad, Row(a, g, None, 0)>>,
    <<Row(a, None, None, 0), Row(a, None, None, 1)>>,
    <<Row(a, None, None, 0), Row(b, None, None, 0), Bad>> }

CatalogueRests == db = Nothing /\ CatalogueInit
LinkingRests == chatOf = [u \in Users |-> Unset] /\ LinkingInit
AccessRests == AccessInit /\ \A p \in Attempts : attempts[p].email = m

(* Up to the names of chats and emails, all the ways to begin. *)
LinkingBegins == LinkingInit /\ chatOf[u2] # h1 /\ (chatOf[u2] = h2 => chatOf[u1] = h1)
AccessBegins == AccessInit /\ attempts[p1].email = m

MCInit ==
  \/ desk = "catalogue" /\ CatalogueInit /\ LinkingRests /\ AccessRests
  \/ desk = "bot" /\ CatalogueRests /\ LinkingBegins /\ AccessRests
  \/ desk = "sign-in" /\ CatalogueRests /\ LinkingRests /\ AccessBegins

MCNext ==
  /\ UNCHANGED desk
  /\ \/ desk = "catalogue" /\ CatalogueNext /\ UNCHANGED <<linkingVars, accessVars>>
     \/ desk = "bot" /\ LinkingNext /\ UNCHANGED <<catalogueVars, accessVars>>
     \/ desk = "sign-in" /\ AccessNext /\ UNCHANGED <<catalogueVars, linkingVars>>

officeVars == <<desk, catalogueVars, linkingVars, accessVars>>

MCSpec ==
  /\ MCInit /\ [][MCNext]_officeVars
  /\ CatalogueFairness /\ LinkingFairness

(* Whatever is waited for, every request to the catalogue and every message  *)
(* to the bot is answered (catalog/service.go, import.go; notify/webhook.go). *)
OfficeRequestsEnd ==
  /\ CatalogueRequestsEnd
  /\ UpdatesEnd

=============================================================================
