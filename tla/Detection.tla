------------------------------ MODULE Detection ------------------------------
(***************************************************************************)
(* From a page to a signal, the two deterministic classifications:         *)
(* core/extraction_utils.py and services/extraction.py decide what kind of *)
(* evidence a page is and how far it is trusted; services/signal_detection.*)
(* py decides which signal a piece of evidence supports.                   *)
(*                                                                         *)
(* A text is the set of what the code looks for in it: a page's `hints` are*)
(* the keywords in its path and title, `words` the signal types of which   *)
(* some keyword is in the evidence's title and excerpt.                    *)
(***************************************************************************)
EXTENDS Integers, Sequences, FiniteSets, FiniteSetsExt

\* Which keyword stands for which kind of page, in the order in which they are tried.
PageTypeKeywords ==
  <<<<"leadership", "leadership">>, <<"management", "leadership">>, <<"team", "team">>,
    <<"careers", "careers">>, <<"jobs", "careers">>, <<"contact", "contact">>,
    <<"about", "about">>, <<"product", "products">>, <<"pricing", "products">>,
    <<"news", "news">>, <<"blog", "news">>, <<"press", "press">>, <<"media", "press">>,
    <<"partner", "partnerships">>>>

ClassifyPage(hints) ==
  LET met == {i \in DOMAIN PageTypeKeywords : PageTypeKeywords[i][1] \in hints}
  IN IF met = {} THEN "other" ELSE PageTypeKeywords[Min(met)][2]

EvidenceTypeOf(pageType) ==
  CASE pageType \in {"about", "contact"} -> "company_profile"
    [] pageType \in {"team", "leadership"} -> "leadership"
    [] pageType = "careers" -> "hiring"
    [] pageType = "products" -> "product"
    [] pageType \in {"news", "press"} -> "news"
    [] pageType = "partnerships" -> "partnership"
    [] OTHER -> "website"

EvidenceTypes == {"company_profile", "leadership", "hiring", "funding", "product", "partnership",
                  "expansion", "technology", "certification", "acquisition", "news",
                  "job_posting", "website", "social_business", "other"}

\* A page that names its site is trusted more than text that was merely scraped.
PageConfidence(siteName) == IF siteName THEN 90 ELSE 70

-----------------------------------------------------------------------------

DirectEvidence == {"hiring", "funding", "partnership", "acquisition", "certification", "expansion"}

SuggestiveEvidenceToSignal(evidenceType) ==
  CASE evidenceType = "leadership" -> {"leadership_change"}
    [] evidenceType = "product" -> {"product_launch"}
    [] evidenceType = "technology" -> {"migration"}
    [] OTHER -> {}

BroadScanOrder == <<"funding", "acquisition", "leadership_change", "product_launch", "partnership",
                    "hiring", "expansion", "certification", "migration">>

\* Mutant: a suggestive page that no word confirms falls through to the scan of all words.
DetectByAnyWord(words, evidenceType) ==
  LET scanned == {i \in DOMAIN BroadScanOrder : BroadScanOrder[i] \in words}
  IN IF evidenceType \in DirectEvidence THEN {<<evidenceType, 85>>}
     ELSE IF scanned # {} THEN {<<BroadScanOrder[Min(scanned)], 60>>}
     ELSE {}

\* The signals some text supports, none or one: its type and the confidence in hundredths.
DetectSignalType(words, evidenceType) ==
  LET suggested == SuggestiveEvidenceToSignal(evidenceType)
      scanned == {i \in DOMAIN BroadScanOrder : BroadScanOrder[i] \in words}
  IN IF evidenceType \in DirectEvidence THEN {<<evidenceType, 85>>}
     ELSE IF suggested # {} THEN {<<t, 75>> : t \in suggested \cap words}
     ELSE IF scanned # {} THEN {<<BroadScanOrder[Min(scanned)], 60>>}
     ELSE {}
=============================================================================
