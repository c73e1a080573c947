------------------------------- MODULE Directory -------------------------------
(***************************************************************************)
(* The companies and contacts of a tenant: found or created by the         *)
(* extraction of fetched pages (ingest_raw_document, services/             *)
(* extraction.py), and entered by hand (api/v1/companies.py, contacts.py). *)
(*                                                                         *)
(* No index makes a domain or an email unique.  Extractions run in the     *)
(* workers and in the API, each in a transaction: its inserts are drafts   *)
(* that only it sees until it commits, and of a contact it enriches it     *)
(* writes the columns it changed in its copy.                              *)
(***************************************************************************)
EXTENDS Naturals, Sequences, FiniteSets

CONSTANTS
  Pages,         \* what parsing gives: a domain, emails in order, a job title or None
  Professional,  \* the pairs of email and domain of which the email is at the domain
  Inputs,        \* contacts entered by hand: email and title
  CompanyIds, ContactIds,
  Extractors,    \* sessions that may extract at once
  WorkerSessions,\* those of them that belong to a worker
  MaxIngests,    \* bound: extractions and rows entered by hand
  None           \* model value: no row, NULL

Domains == {p.domain : p \in Pages}
Titles == {p.title : p \in Pages} \cup {i.title : i \in Inputs}
EmailsOfPages == UNION {{p.emails[i] : i \in DOMAIN p.emails} : p \in Pages}

CompanyRow == [domain : Domains, by : Extractors \cup {None}]
ContactRow == [email : EmailsOfPages \cup {i.email : i \in Inputs}, title : Titles \cup {None},
               company : CompanyIds \cup {None}, by : Extractors \cup {None}]
Enrichment == [old : ContactRow, new : ContactRow]

ASSUME DirectoryConstants ==
  /\ WorkerSessions \subseteq Extractors /\ MaxIngests \in Nat
  /\ \A p \in Pages : p.emails \in Seq(EmailsOfPages)
  /\ None \notin CompanyIds \cup ContactIds \cup Extractors \cup Domains \cup Pages
  /\ None \notin CompanyRow \cup ContactRow \cup Enrichment

VARIABLES
  company,   \* domain of each company, and the session whose draft it is
  contact,   \* email, title and company of each contact, and the session whose draft it is
  page,      \* the page each session extracts
  employer,  \* the company it has found or created
  left,      \* the emails it has still to see to
  enriched,  \* the contacts it has changed: as it loaded them and as it will write them
  rivals,    \* history: what others have committed since each session began
  doubled,   \* history: domains and emails that a race or a hand has entered twice
  ingests

sessions == <<page, employer, left, enriched>>
directoryVars == <<company, contact, sessions, rivals, doubled, ingests>>

-----------------------------------------------------------------------------
(* Rows, and what a session sees of them: those committed and its own. *)

\* Ids are random: any one that no row has.
Fresh(table) ==
  LET free == {i \in DOMAIN table : table[i] = None} IN {i \in free : i = CHOOSE j \in free : TRUE}

\* Mutant: drafts of others are seen.
SeesDrafts(x, r) == r # None

Seen(x, r) == r # None /\ r.by \in {x, None}
Committed(r) == r # None /\ r.by = None

CompaniesOf(x, d) == {c \in CompanyIds : Seen(x, company[c]) /\ company[c].domain = d}
ContactsOf(x, e) == {c \in ContactIds : Seen(x, contact[c]) /\ contact[c].email = e}

\* Mutant: the lookup does not find the row.
FindsNothing(found) == {None}

\* scalar_one_or_none: no row, the row, or MultipleResultsFound.
OneOrNone(found) == IF found = {} THEN {None} ELSE IF Cardinality(found) = 1 THEN found ELSE {}

-----------------------------------------------------------------------------

Ingest(x, p) ==
  /\ page[x] = None /\ ingests < MaxIngests /\ ingests' = ingests + 1
  /\ page' = [page EXCEPT ![x] = p]
  /\ left' = [left EXCEPT ![x] = p.emails]
  /\ UNCHANGED <<company, contact, employer, enriched, rivals, doubled>>

\* _get_or_create_company.
GetCompany(x) ==
  /\ page[x] # None /\ employer[x] = None
  /\ \E c \in OneOrNone(CompaniesOf(x, page[x].domain)) :
       IF c # None
       THEN employer' = [employer EXCEPT ![x] = c] /\ UNCHANGED company
       ELSE \E new \in Fresh(company) :
              /\ company' = [company EXCEPT ![new] = [domain |-> page[x].domain, by |-> x]]
              /\ employer' = [employer EXCEPT ![x] = new]
  /\ UNCHANGED <<contact, page, left, enriched, rivals, doubled, ingests>>

\* find_job_title_near, for an email at the page's own domain.
Guess(x, e) == IF <<e, page[x].domain>> \in Professional THEN page[x].title ELSE None

\* Mutant: the guess is taken over what is known.
PreferGuess(known, guess) == IF guess # None THEN guess ELSE known

Enrich(known, guess) == IF known = None THEN guess ELSE known

AsLoaded(x, c) == IF enriched[x][c] = None THEN contact[c] ELSE enriched[x][c].new

\* _get_or_create_contact, for the next email of the page.
GetContact(x) ==
  LET e == Head(left[x])
      guess == Guess(x, e)
  IN  /\ employer[x] # None /\ left[x] # <<>>
      /\ left' = [left EXCEPT ![x] = Tail(@)]
      /\ \E c \in OneOrNone(ContactsOf(x, e)) :
           IF c # None
           THEN LET old == AsLoaded(x, c)
                    new == [old EXCEPT !.title = Enrich(@, guess), !.company = Enrich(@, employer[x])]
                IN  /\ enriched' = [enriched EXCEPT ![x][c] =
                          IF new = old THEN @
                          ELSE [old |-> IF @ = None THEN old ELSE @.old, new |-> new]]
                    /\ UNCHANGED contact
           ELSE \E new \in Fresh(contact) :
                  /\ contact' = [contact EXCEPT ![new] =
                       [email |-> e, title |-> guess, company |-> employer[x], by |-> x]]
                  /\ UNCHANGED enriched
      /\ UNCHANGED <<company, page, employer, rivals, doubled, ingests>>

Changed(now, old, new) == IF new = old THEN now ELSE new

\* A contact as the session leaves it: its draft, or the columns it has changed.
Left(x, c) ==
  LET r == contact[c] IN
    IF r # None /\ r.by = x THEN [r EXCEPT !.by = None]
    ELSE IF enriched[x][c] = None THEN r
    ELSE [r EXCEPT !.title = Changed(@, enriched[x][c].old.title, enriched[x][c].new.title),
                   !.company = Changed(@, enriched[x][c].old.company, enriched[x][c].new.company)]

NewKeys(x) == {company[c].domain : c \in {i \in CompanyIds : company[i] # None /\ company[i].by = x}}
         \cup {contact[c].email : c \in {i \in ContactIds : contact[i] # None /\ contact[i].by = x}}

Noticed(keys, x) ==
  rivals' = [y \in Extractors |-> IF y = x \/ page[y] = None THEN {} ELSE rivals[y] \cup keys]

EndIngest(x) ==
  /\ page' = [page EXCEPT ![x] = None]
  /\ employer' = [employer EXCEPT ![x] = None]
  /\ left' = [left EXCEPT ![x] = <<>>]
  /\ enriched' = [enriched EXCEPT ![x] = [c \in ContactIds |-> None]]
  /\ UNCHANGED ingests

Keep(x) ==
  /\ company' = [c \in CompanyIds |->
       IF company[c] # None /\ company[c].by = x THEN [company[c] EXCEPT !.by = None] ELSE company[c]]
  /\ contact' = [c \in ContactIds |-> Left(x, c)]
  /\ Noticed(NewKeys(x), x)
  /\ doubled' = doubled \cup (NewKeys(x) \cap rivals[x])
  /\ EndIngest(x)

\* The page is done: evidence is added and all is committed.
CommitPage(x) == employer[x] # None /\ left[x] = <<>> /\ Keep(x)

\* Two rows where one is expected, or another error of the code: a worker commits what was
\* flushed, with the retry of its job (_mark_retry); a request rolls back.
\* A database error or the end of the process rolls back in either.
DropPage(x) ==
  /\ page[x] # None
  /\ company' = [c \in CompanyIds |->
       IF company[c] # None /\ company[c].by = x THEN None ELSE company[c]]
  /\ contact' = [c \in ContactIds |->
       IF contact[c] # None /\ contact[c].by = x THEN None ELSE contact[c]]
  /\ Noticed({}, x)
  /\ UNCHANGED doubled
  /\ EndIngest(x)

GiveUp(x) == x \in WorkerSessions /\ page[x] # None /\ Keep(x)

\* POST /companies and POST /contacts look nothing up.
EnterKey(k, taken) ==
  /\ ingests < MaxIngests /\ ingests' = ingests + 1
  /\ rivals' = [y \in Extractors |-> IF page[y] = None THEN {} ELSE rivals[y] \cup {k}]
  /\ doubled' = IF taken THEN doubled \cup {k} ELSE doubled
  /\ UNCHANGED sessions

EnterCompany(d) ==
  /\ EnterKey(d, \E c \in CompanyIds : Committed(company[c]) /\ company[c].domain = d)
  /\ \E new \in Fresh(company) :
       company' = [company EXCEPT ![new] = [domain |-> d, by |-> None]]
  /\ UNCHANGED contact

\* The payload may name any company there is: only the foreign key checks it.
EnterContact(i, employs) ==
  /\ employs # None => Committed(company[employs])
  /\ EnterKey(i.email, \E c \in ContactIds : Committed(contact[c]) /\ contact[c].email = i.email)
  /\ \E new \in Fresh(contact) :
       contact' = [contact EXCEPT ![new] =
         [email |-> i.email, title |-> i.title, company |-> employs, by |-> None]]
  /\ UNCHANGED company

-----------------------------------------------------------------------------

DirectoryInit ==
  /\ company = [c \in CompanyIds |-> None] /\ contact = [c \in ContactIds |-> None]
  /\ page = [x \in Extractors |-> None] /\ employer = [x \in Extractors |-> None]
  /\ left = [x \in Extractors |-> <<>>]
  /\ enriched = [x \in Extractors |-> [c \in ContactIds |-> None]]
  /\ rivals = [x \in Extractors |-> {}] /\ doubled = {} /\ ingests = 0

DirectoryNext ==
  \/ \E x \in Extractors : \/ \E p \in Pages : Ingest(x, p)
                           \/ GetCompany(x) \/ GetContact(x)
                           \/ CommitPage(x) \/ DropPage(x) \/ GiveUp(x)
  \/ \E d \in Domains : EnterCompany(d)
  \/ \E i \in Inputs, c \in CompanyIds \cup {None} : EnterContact(i, c)

DirectorySpec == DirectoryInit /\ [][DirectoryNext]_directoryVars

-----------------------------------------------------------------------------
(* Properties. *)

\* The shape of the state; a contact works for a company that whoever sees it sees too.
DirectoryTypeOK ==
  /\ \A c \in CompanyIds : company[c] \in CompanyRow \cup {None}
  /\ \A c \in ContactIds :
       /\ contact[c] \in ContactRow \cup {None}
       /\ contact[c] # None /\ contact[c].company # None => Seen(contact[c].by, company[contact[c].company])
  /\ \A x \in Extractors :
       /\ page[x] \in Pages \cup {None}
       /\ employer[x] # None => page[x] # None /\ Seen(x, company[employer[x]])
       /\ \A c \in ContactIds : enriched[x][c] # None => Committed(contact[c]) \/ contact[c].by = x
  /\ ingests \in 0..MaxIngests

\* However often pages of one site are extracted, and whatever an extraction leaves behind
\* when it fails, there is one company per domain and one contact per email, except for
\* what was entered by hand or by extractions that overlapped (the lookups of
\* _get_or_create_company and _get_or_create_contact).
OneOfEach ==
  /\ \A d \in Domains \ doubled :
       Cardinality({c \in CompanyIds : Committed(company[c]) /\ company[c].domain = d}) <= 1
  /\ \A c, k \in ContactIds :
       Committed(contact[c]) /\ Committed(contact[k]) /\ contact[c].email = contact[k].email =>
         c = k \/ contact[c].email \in doubled

\* A job title, once known, is never guessed over; the exception is an extraction that had
\* loaded the contact before the title was known (_get_or_create_contact: "Enrich, never
\* overwrite").
TitleStands ==
  [][\A c \in ContactIds : Committed(contact[c]) /\ contact[c].title # None =>
       \/ contact'[c].title = contact[c].title
       \/ \E x \in Extractors : enriched[x][c] # None /\ enriched[x][c].old.title = None]_directoryVars
=============================================================================
