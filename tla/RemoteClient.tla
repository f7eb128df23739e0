---------------------------- MODULE RemoteClient ----------------------------
(***************************************************************************)
(* One operation of the TIDAL client from the caller down to the requests: *)
(* the retry loop (music_transfer/infrastructure/http.py and               *)
(* tidal_manager/core/retry.py), the client's writes and paged reads       *)
(* (platforms/tidal/client.py, pagination.py; tidal_manager/core/auth.py)  *)
(* and the two translations of errors on the way up (errors.py,            *)
(* adapter.py).  The two applications share the shape and differ in        *)
(* details, so `app` is part of the state.                                 *)
(***************************************************************************)
EXTENDS Naturals, Sequences, FiniteSets, SequencesExt, FiniteSetsExt, Sublists

CONSTANTS
  Sections,       \* what an export reads, in order
  Unwrapped,      \* the sections music_transfer reads without the retry loop
  Collection,     \* the identifiers each section holds, in order
  NewIds,         \* what other clients add
  Hidden,         \* what the server leaves out of a page
  PageSize, MaxPages, MaxItems,
  MaxAttempts, InitialBackoff, MaxBackoff, Jitter,
  RetryAfters,    \* the values of Retry-After the server sends
  MaxFaults, MaxChanges

ASSUME ClientAssumption ==
  /\ Unwrapped \subseteq ToSet(Sections)
  /\ {PageSize, MaxPages, MaxItems, MaxAttempts} \subseteq Nat \ {0}
  /\ RetryAfters \cup {InitialBackoff, MaxBackoff, Jitter} \subseteq Nat
  /\ {MaxFaults, MaxChanges} \subseteq Nat

(* An export reads a list of sections, each of which holds a list; the     *)
(* server names finitely many delays; no delay is jittered below zero.     *)
ASSUME ListsAssumption ==
  /\ Sections \in Seq(ToSet(Sections))
  /\ Collection \in
       [ToSet(Sections) -> Seq(UNION {ToSet(Collection[s]) : s \in ToSet(Sections)})]
  /\ IsFiniteSet(RetryAfters)
  /\ Jitter <= 100

Apps   == {"music_transfer", "tidal_manager"}
Unsafe == {"create_playlist", "create_folder", "add_playlist_item"}
Writes == Unsafe \cup {"add_favorite", "remove_favorite", "delete_playlist"}
Kinds  == {"timeout", "network", "limited", "server",
           "unauthorized", "missing", "other", "refused"}

VARIABLES
  app, op,          \* which client, which operation
  remote,           \* section -> the identifiers it holds
  landed,           \* how often the write took effect
  pc, attempt,      \* the retry loop
  waited,           \* how long it has waited for this request
  answer,           \* [kind, after, page]; after holds the Retry-After, if any
  todo,             \* export_library: the sections to come
  offset, pages, values, seen,   \* the pagination loop
  snapshot, incomplete,
  error,            \* what the call raises: [class, reason]
  faults, inserted, removed

request == <<attempt, waited, answer>>
paging  == <<offset, pages, values, seen>>
export  == <<todo, snapshot, incomplete>>
others  == <<inserted, removed>>
vars == <<app, op, remote, landed, pc, request, paging, export, error, faults,
          others>>

Success  == [class |-> "none", reason |-> ""]
NoAnswer == [kind |-> "none", after |-> {}, page |-> << >>]
Mt       == app = "music_transfer"
Section  == Head(todo)

Init ==
  /\ app \in Apps /\ op \in Writes \cup {"export_library"}
  /\ remote = Collection /\ landed = 0
  /\ pc = IF op \in Writes THEN "send" ELSE "section"
  /\ attempt = 1 /\ waited = 0 /\ answer = NoAnswer
  /\ offset = 0 /\ pages = 0 /\ values = << >> /\ seen = << >>
  /\ todo = Sections /\ incomplete = {}
  /\ snapshot = [s \in ToSet(Sections) |-> << >>]
  /\ error = Success /\ faults = 0 /\ inserted = 0 /\ removed = 0

(***************************************************************************)
(* The server                                                              *)
(***************************************************************************)
Unsure == {"timeout", "network", "limited", "server"}

Least(i, j) == IF i < j THEN i ELSE j

PageAt(s, from) ==
  Sublist(SubSeq(remote[s], from + 1, Least(from + PageSize, Len(remote[s]))),
          ToSet(remote[s]) \ Hidden)

(* A removal or deletion that has landed finds nothing the next time.      *)
Gone == op \in {"remove_favorite", "delete_playlist"} /\ landed > 0

Answer ==
  /\ pc = "send"
  /\ \/ /\ ~Gone
        /\ answer' = [NoAnswer EXCEPT !.kind = "done",
             !.page = IF op \in Writes THEN << >> ELSE PageAt(Section, offset)]
        /\ landed' = IF op \in Writes THEN landed + 1 ELSE 0
        /\ faults' = faults
     \/ /\ Gone
        /\ answer' = [NoAnswer EXCEPT !.kind = "missing"]
        /\ UNCHANGED <<landed, faults>>
     \/ /\ faults < MaxFaults /\ faults' = faults + 1
        /\ \E kind \in Kinds \ (IF op \in Writes THEN {} ELSE {"refused"}),
              after \in {{}} \cup {{x} : x \in RetryAfters} :
             /\ kind # "limited" => after = {}
             /\ answer' = [kind |-> kind, after |-> after, page |-> << >>]
             /\ \/ landed' = landed
                \/ kind \in Unsure /\ op \in Writes /\ ~Gone
                   /\ landed' = landed + 1
  /\ pc' = "answered"
  /\ UNCHANGED <<app, op, remote, attempt, waited, paging, export, error,
                 others>>

OtherClient ==
  /\ op = "export_library" /\ pc # "done"
  /\ inserted + removed < MaxChanges
  /\ \E s \in ToSet(Sections) :
       \/ /\ \E id \in NewIds \ ToSet(remote[s]) :
               remote' = [remote EXCEPT ![s] = <<id>> \o @]
          /\ inserted' = inserted + 1 /\ removed' = removed
       \/ /\ \E i \in DOMAIN remote[s] :
               remote' = [remote EXCEPT ![s] = RemoveAt(@, i)]
          /\ removed' = removed + 1 /\ inserted' = inserted
  /\ UNCHANGED <<app, op, landed, pc, request, paging, export, error, faults>>

(***************************************************************************)
(* The retry loop                                                          *)
(***************************************************************************)
(* classify_provider_error; tidal_manager knows neither 401 nor 403.       *)
Reason(kind) ==
  CASE kind = "timeout"      -> "api_timeout"
    [] kind = "network"      -> "network_error"
    [] kind = "limited"      -> "rate_limited"
    [] kind = "server"       -> "api_server_error"
    [] kind = "missing"      -> "item_unavailable"
    [] kind = "unauthorized" -> IF Mt THEN "authorization_error"
                                ELSE "provider_error"
    [] OTHER                 -> "provider_error"

Retryable == {"timeout", "network", "limited", "server"}

(* Mutation: every call may be repeated.                                   *)
RetrySafeAlways == TRUE

RetrySafe == op \notin Unsafe

Wrapped == ~(Mt /\ op = "export_library" /\ Section \in Unwrapped)

CanRetry ==
  Wrapped /\ RetrySafe /\ answer.kind \in Retryable /\ attempt < MaxAttempts

(* The delay before the first retry, and twice as long before each other.  *)
Doubled[i \in 0 .. MaxAttempts] ==
  IF i = 0 THEN InitialBackoff ELSE 2 * Doubled[i - 1]

(* Mutation: the delay has no cap and starts one doubling too high.        *)
DelaysUncapped ==
  IF answer.after # {} THEN answer.after ELSE {Doubled[attempt]}

(* _backoff_seconds, with the ends and the middle of the jitter.           *)
Delays ==
  IF answer.after # {}
    THEN {IF Mt THEN Least(x, MaxBackoff) ELSE x : x \in answer.after}
    ELSE LET delay == Least(Doubled[attempt - 1], MaxBackoff)
         IN IF Mt THEN {delay}
            ELSE {delay, (delay * (100 - Jitter)) \div 100,
                  (delay * (100 + Jitter)) \div 100}

Retry ==
  /\ pc = "answered" /\ CanRetry
  /\ \E delay \in Delays : waited' = waited + delay
  /\ attempt' = attempt + 1 /\ answer' = NoAnswer /\ pc' = "send"
  /\ UNCHANGED <<app, op, remote, landed, paging, export, error, faults,
                 others>>

(***************************************************************************)
(* Errors                                                                  *)
(***************************************************************************)
AmbiguousReasons ==
  {"api_timeout", "network_error", "api_server_error", "rate_limited"}

Err(class, reason) == [class |-> class, reason |-> reason]

(* translate_provider_error. The reason it looks for is an attribute that  *)
(* only client errors and unavailable items have.                          *)
Translated(reason, write) ==
  CASE reason = "item_unavailable"    -> Err("unavailable", reason)
    [] reason = "authorization_error" -> Err("authorization", "")
    [] reason \in AmbiguousReasons /\ write  -> Err("ambiguous", "")
    [] reason = "rate_limited" /\ ~write     -> Err("rate_limit", "")
    [] reason \in AmbiguousReasons \ {"rate_limited"} /\ ~write ->
         Err("temporary", "")
    [] OTHER                          -> Err("permanent", "")

(* _invoke.                                                                *)
Invoked(reason) ==
  IF Mt THEN Translated(reason, ~RetrySafe)
  ELSE IF reason = "item_unavailable" THEN Err("unavailable", reason)
  ELSE Err("client", reason)

(* What each write makes of an answer without an identifier, or false.     *)
Refused ==
  IF op = "add_playlist_item" THEN Err("unavailable", "playlist_item_not_added")
  ELSE Err("client", "refused")

(***************************************************************************)
(* Writes                                                                  *)
(***************************************************************************)
(* The client returns or raises.  tidal_manager calls its client directly; *)
(* what music_transfer's client raises still passes the adapter.           *)
Finish(e) ==
  /\ error' = e
  /\ pc' = IF Mt /\ e # Success THEN "raised" ELSE "done"
  /\ UNCHANGED <<app, op, remote, landed, request, paging, export, faults,
                 others>>

(* The adapter's methods translate what the client has translated before;  *)
(* create_folder and delete_playlist leave core errors alone, the others   *)
(* catch every exception.  A core error has no reason, so it ends as the   *)
(* last case of the translation.                                           *)
Adapted(e) ==
  IF \/ e.class = "client"
     \/ op \in {"create_folder", "delete_playlist"} /\ e.class # "unavailable"
    THEN e
    ELSE Translated(e.reason, TRUE)

AdapterRaises ==
  /\ pc = "raised"
  /\ error' = Adapted(error) /\ pc' = "done"
  /\ UNCHANGED <<app, op, remote, landed, request, paging, export, faults,
                 others>>

Written == pc = "answered" /\ op \in Writes /\ answer.kind = "done"
           /\ Finish(Success)

WriteRefused == pc = "answered" /\ op \in Writes /\ answer.kind = "refused"
                /\ Finish(Refused)

(* Mutation: a rate limit is not taken for an unknown outcome.             *)
WriteFailsLimited ==
  /\ pc = "answered" /\ op \in Writes /\ ~CanRetry
  /\ answer.kind \notin {"done", "refused"}
  /\ Finish(IF answer.kind = "limited" THEN Err("rate_limit", "")
            ELSE Invoked(Reason(answer.kind)))

WriteFails ==
  /\ pc = "answered" /\ op \in Writes /\ ~CanRetry
  /\ answer.kind \notin {"done", "refused"}
  /\ Finish(Invoked(Reason(answer.kind)))

(***************************************************************************)
(* export_library and the two pagination loops                             *)
(***************************************************************************)
NewRequest == attempt' = 1 /\ waited' = 0 /\ answer' = NoAnswer

OpenSection ==
  /\ pc = "section"
  /\ pc' = IF todo = << >> THEN "done" ELSE "send"
  /\ offset' = 0 /\ pages' = 0 /\ values' = << >> /\ seen' = << >>
  /\ NewRequest
  /\ UNCHANGED <<app, op, remote, landed, export, error, faults, others>>

CloseSection(complete) ==
  /\ IF complete
       THEN snapshot' = [snapshot EXCEPT ![Section] = values']
            /\ incomplete' = incomplete
       ELSE incomplete' = incomplete \cup {Section} /\ snapshot' = snapshot
  /\ todo' = Tail(todo) /\ pc' = "section"
  /\ NewRequest

AtPage == pc = "answered" /\ op = "export_library" /\ answer.kind = "done"

(* A repeated page: music_transfer compares with every page it has seen,   *)
(* tidal_manager a full page with the one before.                          *)
Repeated ==
  IF Mt THEN answer.page \in ToSet(seen)
  ELSE Len(answer.page) = PageSize /\ seen # << >> /\ answer.page = Last(seen)

Collected == values \o answer.page

(* Mutation: only a short page ends the loop.                              *)
EndsShort == ~Mt /\ Len(answer.page) < PageSize

(* fetch_all ends at an empty page, _paginate_offset at a short one.       *)
Ends == answer.page = << >> \/ (~Mt /\ Len(answer.page) < PageSize)

(* max_items after a page, max_pages before the next one.                  *)
OutOfBounds ==
  Mt /\ (Len(Collected) >= MaxItems \/ pages + 1 >= MaxPages)

SectionRead ==
  /\ AtPage /\ Ends /\ (answer.page = << >> \/ ~Repeated)
  /\ values' = Collected
  /\ CloseSection(TRUE)
  /\ UNCHANGED <<app, op, remote, landed, offset, pages, seen, error, faults,
                 others>>

SectionRefused ==
  /\ AtPage /\ answer.page # << >>
  /\ Repeated \/ (~Ends /\ OutOfBounds)
  /\ CloseSection(FALSE)
  /\ UNCHANGED <<app, op, remote, landed, paging, error, faults, others>>

(* Mutation: the next page begins after the items that were received.      *)
NextPageByLength ==
  /\ AtPage /\ ~Ends /\ ~Repeated /\ ~OutOfBounds
  /\ values' = Collected /\ seen' = Append(seen, answer.page)
  /\ pages' = pages + 1 /\ offset' = offset + Len(answer.page)
  /\ NewRequest /\ pc' = "send"
  /\ UNCHANGED <<app, op, remote, landed, export, error, faults, others>>

(* A page that is not the last one: full for tidal_manager, which goes on  *)
(* by its length, that is by the page size too.                            *)
NextPage ==
  /\ AtPage /\ ~Ends /\ ~Repeated /\ ~OutOfBounds
  /\ values' = Collected /\ seen' = Append(seen, answer.page)
  /\ pages' = pages + 1 /\ offset' = offset + PageSize
  /\ NewRequest /\ pc' = "send"
  /\ UNCHANGED <<app, op, remote, landed, export, error, faults, others>>

SectionFails ==
  /\ pc = "answered" /\ op = "export_library"
  /\ answer.kind # "done" /\ ~CanRetry
  /\ CloseSection(FALSE)
  /\ UNCHANGED <<app, op, remote, landed, paging, error, faults, others>>

Step == \/ Answer \/ Retry \/ Written \/ WriteRefused \/ WriteFails
        \/ AdapterRaises \/ OpenSection \/ SectionRead \/ SectionRefused \/ NextPage
        \/ SectionFails

Next == Step \/ OtherClient

Spec == Init /\ [][Next]_vars /\ WF_vars(Step)

(***************************************************************************)
(* Properties                                                              *)
(***************************************************************************)
(* A creation or an append takes effect at most once in one call, however  *)
(* many answers are lost (http.py:9, retry_safe).                          *)
UnsafeLandsOnce == op \in Unsafe => landed <= 1

(* When such a write took effect and an error is raised, the error of the  *)
(* client says that the outcome is unknown (errors.py:13-16,               *)
(* _unknown_creation_outcome of tidal_manager/core/transfer.py:480), and   *)
(* the callers of tidal_manager and of create_folder are told so.  The     *)
(* adapter's create_playlist and add_playlist_item lose the doubt on the   *)
(* way: their callers are told of a permanent failure, although            *)
(* adapter.py:243-246 and 261 name the ambiguous one.                      *)
Doubtful(e) ==
  IF Mt THEN e.class = "ambiguous" ELSE e.reason \in AmbiguousReasons

Forgetful == Mt /\ op # "create_folder"

ClientKeepsDoubt ==
  op \in Unsafe /\ landed > 0 /\ error # Success =>
    /\ pc = "raised" => Doubtful(error)
    /\ pc = "done" =>
         IF Forgetful THEN error.class = "permanent" ELSE Doubtful(error)

(* Every wait is bounded (http.py:35, "Bound every network wait");         *)
(* tidal_manager is bound by what the server asks for, and never asks      *)
(* again sooner than that (retry.py:151).                                  *)
WaitsBounded ==
  [][waited' > waited =>
       LET wait == waited' - waited
           bound == IF Mt THEN MaxBackoff
                    ELSE Max(RetryAfters \cup {(MaxBackoff * (100 + Jitter)) \div 100})
       IN wait <= bound /\ (~Mt => \A x \in answer.after : wait >= x)]_vars

Visible(s) == Sublist(remote[s], ToSet(remote[s]) \ Hidden)

Blocks(s) ==
  {k \in {n * PageSize : n \in 0 .. Len(remote[s])} : k < Len(remote[s])}

(* What the rule of each loop relies on: no page before the end is empty,  *)
(* or, for tidal_manager, short.                                           *)
Pageable(s) ==
  \A k \in Blocks(s) :
    IF Mt THEN PageAt(s, k) # << >>
    ELSE k + PageSize < Len(remote[s]) => Len(PageAt(s, k)) = PageSize

(* A section that is reported as read is there in full, in order and once *)
(* when it did not change meanwhile; additions by other clients shift the  *)
(* rest, so that items are seen twice, but none that was there before is   *)
(* lost where the server hides none (pagination.py:1-24).                  *)
ReadLosesNothing ==
  pc = "done" /\ op = "export_library" /\ removed = 0 =>
    \A s \in ToSet(Sections) \ incomplete :
      /\ inserted = 0 /\ Pageable(s) => snapshot[s] = Visible(s)
      /\ ToSet(remote[s]) \cap Hidden = {} =>
           ToSet(Collection[s]) \subseteq ToSet(snapshot[s])

(* Every call returns, whatever the network does.                          *)
CallReturns == <>(pc = "done")
============================================================================
