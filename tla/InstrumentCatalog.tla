--------------------------- MODULE InstrumentCatalog ---------------------------
(***************************************************************************)
(* services/instrument_catalog.py: lists of instruments, loaded on demand   *)
(* and kept for a time to live, shared by the API calls and streams of a    *)
(* process. A failed load is kept as an empty list.                         *)
(***************************************************************************)
EXTENDS SymbolMatching

CONSTANTS
    Callers,    \* sessions that resolve a symbol
    Exchanges,
    Listing,    \* exchange -> the rows it lists
    Hyphenated, \* exchange -> how a fallback symbol ends, <<>> if unchanged
    Questions,  \* [from, to]: the row of a master's symbol, a target exchange
    Defaults,   \* limits used when a row states none
    Ttl,        \* minutes a list is kept
    LoadTime,   \* bound on the minutes a load takes: the HTTP client's timeout
    MaxMinute   \* bound on the time

\* The lists a question is answered from: that of the symbol and the target's.
Needed(question) == {question.from.exchange, question.to}

\* The client gives up after seconds, a list is kept for minutes (config.py:38).
ASSUME CatalogConstantsOK ==
    /\ Ttl \in Nat /\ LoadTime \in Nat /\ MaxMinute \in Nat
    /\ LoadTime < Ttl
    /\ \A question \in Questions : Needed(question) \subseteq Exchanges
    /\ Defaults.step \in Nat \ {0} /\ Defaults.min \in Nat \ {0}
    /\ \A e \in Exchanges :
          /\ DOMAIN Listing[e] \subseteq Nat
          /\ \A n \in DOMAIN Listing[e] : /\ Listing[e][n].steps \in Seq(Nat \cup {Unusable})
                                         /\ Listing[e][n].mins \in Seq(Nat \cup {Unusable})

VARIABLES
    minute,
    entries,  \* exchange -> _entries
    loadedAt, \* exchange -> time of its last load, -Ttl before the first
    step,     \* caller -> "idle", "waiting" for the lock, "loading"
    asked,    \* caller -> what it wants: a symbol and a target exchange
    begun,    \* caller -> `now` as taken when it got the lock
    todo,     \* caller -> exchanges it still has to load
    heard,    \* exchange -> what it answered last, and when; or that it failed
    answer    \* what the last step answered, if it did

catalogVars == <<minute, entries, loadedAt, step, asked, begun, todo, heard, answer>>

NoQuestion == [from |-> {}, to |-> {}]
Fresh(e) == minute - loadedAt[e] < Ttl
AllFresh(question) == \A e \in Needed(question) : Fresh(e)

CatalogInit ==
    /\ minute = 0
    /\ entries = [e \in Exchanges |-> <<>>]
    /\ loadedAt = [e \in Exchanges |-> -Ttl]
    /\ step = [c \in Callers |-> "idle"]
    /\ asked = [c \in Callers |-> NoQuestion]
    /\ begun = [c \in Callers |-> 0]
    /\ todo = [c \in Callers |-> {}]
    /\ heard = [e \in Exchanges |-> [at |-> -Ttl, answered |-> FALSE]]
    /\ answer = {}

\* What resolve_symbol returns from the lists as they are: nothing is awaited
\* between the end of the load and its return.
Reply(question, lists, told) ==
    {[question |-> question, at |-> minute, heard |-> told[question.to],
       got |-> Resolve(lists[question.to], Hyphenated[question.to],
                       question.from.symbol, Defaults)]}

\* A first look without the lock.
Ask(c) ==
    /\ step[c] = "idle"
    /\ \E question \in Questions :
          \/ /\ AllFresh(question)
             /\ answer' = Reply(question, entries, heard)
             /\ UNCHANGED <<step, asked>>
          \/ /\ ~AllFresh(question)
             /\ asked' = [asked EXCEPT ![c] = question]
             /\ step' = [step EXCEPT ![c] = "waiting"]
             /\ answer' = {}
    /\ UNCHANGED <<minute, entries, loadedAt, begun, todo, heard>>

\* The lock is taken and the lists are looked at again: another caller may have
\* loaded them meanwhile.
EnterLoad(c) ==
    /\ step[c] = "waiting"
    /\ \A other \in Callers : step[other] # "loading"
    /\ \/ /\ AllFresh(asked[c])
          /\ answer' = Reply(asked[c], entries, heard)
          /\ step' = [step EXCEPT ![c] = "idle"]
          /\ asked' = [asked EXCEPT ![c] = NoQuestion]
          /\ UNCHANGED <<todo, begun>>
       \/ /\ ~AllFresh(asked[c])
          /\ step' = [step EXCEPT ![c] = "loading"]
          /\ todo' = [todo EXCEPT ![c] = Needed(asked[c])]
          /\ begun' = [begun EXCEPT ![c] = minute]
          /\ answer' = {}
          /\ UNCHANGED asked
    /\ UNCHANGED <<minute, entries, loadedAt, heard>>

\* Mutant of KeptFrom: an empty list is kept from when the load ended.
KeptFromNow(c) == minute + 1

\* The time a list counts from: `now` as it was taken under the lock.
KeptFrom(c) == begun[c]

\* One exchange of the loop answers or fails; either is kept.
LoadOne(c) ==
    /\ step[c] = "loading"
    /\ \E e \in todo[c], answered \in BOOLEAN :
          LET lists == [entries EXCEPT ![e] =
                           IF answered THEN BuildEntries(Listing[e], Defaults) ELSE <<>>]
              told == [heard EXCEPT ![e] = [at |-> minute, answered |-> answered]]
              last == todo[c] = {e}
          IN  /\ entries' = lists
              /\ heard' = told
              /\ loadedAt' = [loadedAt EXCEPT ![e] = KeptFrom(c)]
              /\ todo' = [todo EXCEPT ![c] = @ \ {e}]
              /\ step' = [step EXCEPT ![c] = IF last THEN "idle" ELSE "loading"]
              /\ asked' = [asked EXCEPT ![c] = IF last THEN NoQuestion ELSE @]
              /\ answer' = IF last THEN Reply(asked[c], lists, told) ELSE {}
    /\ UNCHANGED <<minute, begun>>

\* Time passes, but never so much that a load outlives its timeout.
CatalogTick ==
    /\ minute < MaxMinute
    /\ \A c \in Callers : step[c] = "loading" => minute < begun[c] + LoadTime
    /\ minute' = minute + 1
    /\ answer' = {}
    /\ UNCHANGED <<entries, loadedAt, step, asked, begun, todo, heard>>

CatalogNext ==
    \/ \E c \in Callers : Ask(c) \/ EnterLoad(c) \/ LoadOne(c)
    \/ CatalogTick

CatalogSpec == CatalogInit /\ [][CatalogNext]_catalogVars

-----------------------------------------------------------------------------
\* Nobody is answered from a list that was never loaded, an answer is never
\* older than the time to live, whoever loaded it and however long others held
\* the lock; and a symbol is not found only if the exchange lists its pair under no
\* name, or failed less than that time ago. instrument_catalog.py:70-87.
AnswersAreRecent ==
    \A a \in answer :
        /\ a.at - a.heard.at < Ttl
        /\ ~a.got.listed =>
              \/ ~a.heard.answered
              \/ \A n \in NamedRows(Listing[a.question.to]) :
                    Canonical(Listing[a.question.to][n]) # CanonicalOf(a.question.from.symbol)

Pair(row) == <<Aliased(row.base), Aliased(row.quote)>>
BeginsLikeAContract(row) == Head(Aliased(row.base)) \in ContractPrefixes
SpelledLikeAContract(row) == BeginsLikeAContract(row) \/ row.quote[1] \notin Quotes

\* How a contract may be spelled: base and quote, a prefix before and a suffix
\* behind, with any separators. The quote is a name of its own.
Spelled(row) ==
    /\ Aliased(row.base) \in Seq(STRING) /\ Aliased(row.base) # <<>>
    /\ Len(row.quote) = 1 /\ Alias(row.quote[1]) \notin ContractSuffixes
    /\ \E prefix \in {<<>>} \cup {<<p>> : p \in ContractPrefixes},
          suffix \in {<<>>} \cup {<<p>> : p \in ContractSuffixes} :
          Normalized(row.symbol) = prefix \o PairKey(row) \o suffix

\* The symbols that are asked and the rows they are looked for among are spelled so,
\* and no base of those rows begins with the letters of a prefix (a contract IN-BTC
\* would be taken for BTC).
AllSpelled ==
    \A question \in Questions :
        LET rows == Listing[question.to]
        IN  /\ Spelled(question.from)
            /\ \A n \in NamedRows(rows) : Spelled(rows[n]) /\ ~ BeginsLikeAContract(rows[n])

\* What a symbol is resolved to has its base and its quote, and it is found if
\* the exchange listed the pair: seven spellings of a contract meet in one key.
\* It comes with limits a quantity can be divided by, whatever the row states.
\* Left out are bases that begin with the letters of a contract prefix and
\* quotes the code does not know. instrument_catalog.py:53-68, 145-199.
ResolvesToThePair ==
    \A a \in answer :
        LET rows == Listing[a.question.to]
            same == {n \in NamedRows(rows) : Pair(rows[n]) = Pair(a.question.from)}
        IN  ~SpelledLikeAContract(a.question.from) =>
                /\ a.got.listed => \E n \in same : rows[n].symbol = a.got.symbol
                /\ a.heard.answered /\ same # {} => a.got.listed
                /\ a.got.limits.step > 0 /\ a.got.limits.min > 0
=============================================================================
