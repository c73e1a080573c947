----------------------------- MODULE MCProspects -----------------------------
(* A small instance of Prospects: a careers page, which is direct evidence, a leadership page
   whose words name funding but no change, evidence entered for no company or
   another, and signals entered by hand that are twins, weak, or dismissed from the start.
   The confidences 0.5001 and 0.2686 make an intent of 51 of factors that add up to 51.50, and
   0.50015 is a tie for the rounding of a detected signal's. *)
EXTENDS Prospects, TLC

CONSTANTS acme, other, e1, s1, s2, s3, h1, h2

MCPages ==
  {[source |-> "jobs", company |-> {acme}, hints |-> {"jobs", "news"}, siteName |-> TRUE,
    words |-> {"hiring", "funding"}, age |-> 3],
   [source |-> "board", company |-> {acme}, hints |-> {"leadership"}, siteName |-> FALSE,
    words |-> {"funding"}, age |-> 3]}

MCManualEvidence ==
  {[source |-> "wire", company |-> {other}, type |-> "news", confidence |-> 10003,
    words |-> {"acquisition", "migration"}, age |-> 60],
   [source |-> "wire", company |-> {}, type |-> "funding", confidence |-> Certain, words |-> {}, age |-> 60]}

MCManualSignals ==
  {[source |-> "call", company |-> {acme}, type |-> "hiring", confidence |-> 10002, status |-> "new",
    age |-> 400],
   [source |-> "jobs", company |-> {acme}, type |-> "hiring", confidence |-> Certain,
    status |-> "dismissed", age |-> 0],
   [source |-> "deal", company |-> {acme}, type |-> "acquisition", confidence |-> 5372,
    status |-> "reviewed", age |-> 91]}

MCLeadCompany == {acme}

MCSymmetry == Permutations(Handlers) \cup Permutations(SignalIds)
=============================================================================
