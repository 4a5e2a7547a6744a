---------------------------- MODULE ProviderNames ----------------------------
(***************************************************************************)
(* The names of one provider while it is used: its options are listed,     *)
(* cached, written to the option cache file and read from it when the      *)
(* service starts; clients ask for operators, prices and numbers by name,  *)
(* and what is sent is made from a copy of the options taken before the    *)
(* provider is called.  What the provider lists may change at any time.    *)
(***************************************************************************)
EXTENDS OptionNames, FiniteSets

CONSTANTS
    Catalogues,       \* what the provider may list: services and countries, and
                      \* the operators of each of its countries
    DefaultService, DefaultCountry, DefaultOperator,  \* of the manifest
    Requests,         \* what clients ask for: a service, a country and an operator,
                      \* each by a name, by a word of the provider or Absent
    Countries,        \* whose operators they ask for
    Callers,
    MaxTickets        \* bound of the tickets

(* What an adapter lists: its own word is the value, too.                  *)
Given == {item \in [value : Words, label : Words \cup {Absent},
                    hint : Words \cup {Absent}, native : Words \cup {Absent}] :
             item.native \in {item.value, Absent}}

ASSUME NamesAssumption ==
    /\ MaxTickets \in Nat
    /\ {DefaultService, DefaultCountry, DefaultOperator} \cup Countries \subseteq Words
    /\ Requests \subseteq [service : Words \cup {Absent}, country : Words \cup {Absent},
                            operator : Words \cup {Absent}]
    /\ \A list \in Catalogues :
        /\ list.services \in Seq(Given) /\ list.countries \in Seq(Given)
        /\ \A country \in DOMAIN list.operators : list.operators[country] \in Seq(Given)

VARIABLES
    catalogue,        \* what the provider lists now
    cache,            \* its entry of provider_option_cache, or Absent
    saved,            \* its entry in the option cache file, or Absent
    loaded,           \* whether the entry was read from the file
    call,             \* client -> what it waits for
    tickets           \* what was asked for and how the ticket names it

namesVars == <<catalogue, cache, saved, loaded, call, tickets>>

Kinds == {"acquire", "prices"}

NoCall == [step |-> "idle"]

(* The options that a request reads; none is as good as empty ones.        *)
Copy == IF cache = Absent THEN NoOptions ELSE cache

Waits(c, what) == call' = [call EXCEPT ![c] = what]

NamesInit ==
    /\ catalogue \in Catalogues
    /\ cache = Absent
    /\ saved = Absent
    /\ loaded = FALSE
    /\ call = [c \in Callers |-> NoCall]
    /\ tickets = {}

-----------------------------------------------------------------------------
(* What the provider lists, with the defaults for a list that is empty.    *)
Default(word) == <<[value |-> word, label |-> word, hint |-> word, native |-> word]>>

Filled(items, word) == IF items = <<>> THEN Default(word) ELSE items

OperatorsOf(country) ==
    IF country \in DOMAIN catalogue.operators THEN catalogue.operators[country] ELSE <<>>

(* The operators that are listed are those of the first country.           *)
Discovered ==
    LET seed == IF catalogue.countries = <<>> THEN DefaultCountry
                ELSE RawValue(Head(catalogue.countries))
        operators == Filled(OperatorsOf(seed), DefaultOperator)
    IN  Normalized(Filled(catalogue.services, DefaultService),
                   Filled(catalogue.countries, DefaultCountry),
                   operators,
                   [key \in {CountryKey(seed)} |->
                       [raw |-> operators, items |-> <<>>, fresh |-> TRUE]])

(* A refresh asks the provider and replaces the entry when all is there.   *)
Refresh(c) ==
    /\ call[c].step = "idle"
    /\ Waits(c, [step |-> "put", options |-> Discovered])
    /\ UNCHANGED <<catalogue, cache, saved, loaded, tickets>>

Put(c) ==
    /\ call[c].step = "put"
    /\ cache' = call[c].options
    /\ loaded' = FALSE
    /\ Waits(c, [step |-> "save", options |-> call[c].options])
    /\ UNCHANGED <<catalogue, saved, tickets>>

(* The entry is written, as it was when it was changed, without the lock.  *)
SaveEntry(c) ==
    /\ call[c].step = "save"
    /\ saved' = call[c].options
    /\ Waits(c, NoCall)
    /\ UNCHANGED <<catalogue, cache, loaded, tickets>>

-----------------------------------------------------------------------------
(* The word for a country in a request: a country that its options do not  *)
(* tell is looked up in the provider's list.                               *)
CountryAsked(country) ==
    IF CountryOption(Copy.countries, country) # country
    THEN CountryOption(Copy.countries, country)
    ELSE CountryOption(NamedCountries(catalogue.countries), country)

(* Operators of a country: fresh ones of the cache, or the provider's,     *)
(* which go into the entry if there is one by then.                        *)
ListOperators(c, country) ==
    LET key == CountryKey(country)
    IN  /\ call[c].step = "idle"
        /\ key \in DOMAIN Copy.byCountry => ~Copy.byCountry[key].fresh
        /\ Waits(c, [step |-> "operators", key |-> key, country |-> CountryAsked(country)])
        /\ UNCHANGED <<catalogue, cache, saved, loaded, tickets>>

WithOperators(options, key, raw) ==
    [options EXCEPT !.byCountry =
        [k \in {key} \cup DOMAIN options.byCountry |->
            IF k = key THEN [raw |-> raw, items |-> NamedOperators(raw), fresh |-> TRUE]
            ELSE options.byCountry[k]]]

PutOperators(c) ==
    LET options == WithOperators(cache, call[c].key, OperatorsOf(call[c].country))
    IN  /\ call[c].step = "operators"
        /\ IF cache = Absent
           THEN Waits(c, NoCall) /\ UNCHANGED cache
           ELSE cache' = options /\ Waits(c, [step |-> "save", options |-> options])
        /\ UNCHANGED <<catalogue, saved, loaded, tickets>>

(* The operators of a country are kept for as long as the options.         *)
Expire(key) ==
    /\ cache # Absent
    /\ key \in DOMAIN cache.byCountry
    /\ cache.byCountry[key].fresh
    /\ cache' = [cache EXCEPT !.byCountry[key].fresh = FALSE]
    /\ UNCHANGED <<catalogue, saved, loaded, call, tickets>>

-----------------------------------------------------------------------------
(* A number or its price is asked for by name.  The adapter puts the       *)
(* manifest's alias for the service once more.                             *)
WordOr(word, otherwise) == IF word = Absent THEN otherwise ELSE word

(* Defect: the country is sent as it was asked for.                        *)
TranslatedService(r) ==
    [service |-> IF r.service = Absent THEN Alias(DefaultService)
                 ELSE Alias(ServiceSent(Copy, ServiceKey(r.service, r.service))),
     country |-> WordOr(r.country, DefaultCountry),
     operator |-> OperatorSent(Copy, r.operator, r.country)]

(* An acquisition: the names are made canonical first.  A service that is  *)
(* left out is left to the adapter, a country is the manifest's; it is     *)
(* sent as it is listed, and the operator as it is listed for that word.   *)
Translated(r) ==
    LET country == IF r.country = Absent THEN DefaultCountry ELSE CountryKey(r.country)
        native == NativeOf(Copy.countries, country)
    IN  [service |-> IF r.service = Absent THEN Alias(DefaultService)
                     ELSE Alias(ServiceSent(Copy, ServiceKey(r.service, r.service))),
         country |-> native,
         operator |-> OperatorSent(Copy, r.operator, native)]

(* A price query takes the names as they are.                              *)
PriceAsked(r) ==
    [service |-> Alias(ServiceSent(Copy, WordOr(r.service, DefaultService))),
     country |-> IF r.country = Absent THEN Absent ELSE CountryAsked(r.country),
     operator |-> OperatorSent(Copy, r.operator, r.country)]

Ask(c, kind, request) ==
    /\ call[c].step = "idle"
    /\ Waits(c, [step |-> kind, asked |-> request, copy |-> Copy, loaded |-> loaded,
              sent |-> IF kind = "acquire" THEN Translated(request) ELSE PriceAsked(request)])
    /\ UNCHANGED <<catalogue, cache, saved, loaded, tickets>>

Listing(items) == {RawValue(items[i]) : i \in DOMAIN items}

(* The words a provider gives numbers for: those it lists, or the defaults *)
(* of the manifest if it has no list.                                      *)
OfferedServices == IF catalogue.services = <<>> THEN {Alias(DefaultService)}
                   ELSE Listing(catalogue.services)
OfferedCountries == Listing(Filled(catalogue.countries, DefaultCountry))

(* The ticket that is named by some options.                               *)
TicketOf(asked, sent, options) ==
    LET country == CountryOf(options, sent.country)
    IN  [asked |-> [service |-> WordOr(asked.service, DefaultService),
                    country |-> WordOr(asked.country, DefaultCountry)],
         service |-> ServiceOf(options, sent.service),
         country |-> country,
         operator |-> IF asked.operator = Absent THEN Absent
                      ELSE OperatorOf(options, country, asked.operator)]

(* Defect: the ticket is named by the options that are cached by then.     *)
NamedByTheCache(request) == TicketOf(request.asked, request.sent, Copy)

(* The provider gives a number, under its own words; the ticket is named   *)
(* by the options of the request, its operator by what was asked for.      *)
Named(request) == TicketOf(request.asked, request.sent, request.copy)

Acquired(c) ==
    /\ call[c].step = "acquire"
    /\ call[c].sent.service \in OfferedServices
    /\ call[c].sent.country \in OfferedCountries
    /\ Cardinality(tickets) < MaxTickets
    /\ tickets' = tickets \cup {Named(call[c])}
    /\ Waits(c, NoCall)
    /\ UNCHANGED <<catalogue, cache, saved, loaded>>

(* The prices are those of the country and its operators, under the names  *)
(* of the options of the request.                                          *)
Priced(c) ==
    LET request == call[c]
    IN  /\ request.step = "prices"
        /\ request.sent.service \in OfferedServices
        /\ \E native \in OfferedCountries :
            /\ request.sent.country \in {Absent, native}
            /\ Waits(c, [step |-> "priced",
                      asked |-> request.asked.country,
                      listed |-> request.asked.country \in Values(request.copy.countries),
                      country |-> PriceCountry(request.copy, native),
                      operators |-> {PriceOperator(request.copy, o) :
                                        o \in Listing(OperatorsOf(native))}])
        /\ UNCHANGED <<catalogue, cache, saved, loaded, tickets>>

Told(c) ==
    /\ call[c].step = "priced"
    /\ Waits(c, NoCall)
    /\ UNCHANGED <<catalogue, cache, saved, loaded, tickets>>

(* The provider refuses, or cannot be reached.                             *)
Refused(c) ==
    /\ call[c].step \in Kinds
    /\ Waits(c, NoCall)
    /\ UNCHANGED <<catalogue, cache, saved, loaded, tickets>>

-----------------------------------------------------------------------------
(* The provider lists something else.                                      *)
Relist ==
    /\ catalogue' \in Catalogues
    /\ UNCHANGED <<cache, saved, loaded, call, tickets>>

(* The service starts again: the options are read, named anew and written  *)
(* if that changes them; tickets are named anew without any options.       *)
Renamed(t) == [t EXCEPT !.service = ServiceKey(t.service, t.service),
                        !.country = CountryKey(t.country)]

RestartNamed ==
    /\ cache' = IF saved = Absent THEN Absent ELSE Loaded(saved)
    /\ saved' = cache'
    /\ loaded' = (saved # Absent)
    /\ call' = [c \in Callers |-> NoCall]
    /\ tickets' = {Renamed(t) : t \in tickets}
    /\ UNCHANGED catalogue

NamesNext ==
    \/ \E c \in Callers : Refresh(c) \/ Put(c) \/ SaveEntry(c) \/ PutOperators(c)
                          \/ Acquired(c) \/ Priced(c) \/ Told(c) \/ Refused(c)
    \/ \E c \in Callers, country \in Countries : ListOperators(c, country)
    \/ \E key \in {CountryKey(country) : country \in Countries} : Expire(key)
    \/ \E c \in Callers, kind \in Kinds, request \in Requests : Ask(c, kind, request)
    \/ Relist
    \/ RestartNamed

NamesSpec == NamesInit /\ [][NamesNext]_namesVars

-----------------------------------------------------------------------------
IsItems(items) ==
    \A i \in DOMAIN items : items[i] \in [value : Words, label : Words, hint : Words \cup {Absent},
                                          native : Words]

IsOptions(options) ==
    /\ options.rawServices \subseteq Words
    /\ \A items \in {options.services, options.countries, options.operators} :
           IsItems(items) /\ Cardinality(Values(items)) = Len(items)
    /\ \A key \in DOMAIN options.byCountry :
           key \in Words /\ IsItems(options.byCountry[key].items)

(* Every list of options has each name once, and behind each name a word   *)
(* of the provider (dedup_options, options.rs:644).                        *)
NamesTypeOK ==
    /\ catalogue \in Catalogues
    /\ loaded \in BOOLEAN
    /\ \A options \in {cache, saved} \ {Absent} : IsOptions(options)
    /\ \A c \in Callers : call[c].step \in {"put", "save"} => IsOptions(call[c].options)
    /\ \A t \in tickets : t.service \in Words /\ t.country \in Words

(* All that the provider may list, the defaults included, and its names.   *)
GivenServices == UNION {ToSet(Filled(list.services, DefaultService)) : list \in Catalogues}
GivenCountries == UNION {ToSet(Filled(list.countries, DefaultCountry)) : list \in Catalogues}

Served == {NamedService(item) : item \in GivenServices}
Covered == {NamedCountry(item) : item \in GivenCountries}

(* The word that is sent for a service as it is listed.                    *)
WordOf(u) == Alias(u.native)

(* The words of a service tell it from the others: no other service has    *)
(* its word, or its name for a word, or the word that its name is an alias *)
(* for as a name, and aliases of its name and its word lead to that word.  *)
TellsService(u) ==
    /\ Alias(WordOf(u)) = WordOf(u) /\ Alias(u.value) \in {u.value, WordOf(u)}
    /\ WordOf(u) # u.native => ServiceName(WordOf(u), WordOf(u)) = u.value
    /\ \A v \in Served :
        /\ WordOf(v) = WordOf(u) => v.value = u.value
        /\ u.value = WordOf(v) => WordOf(v) = WordOf(u)
        /\ v.value = WordOf(u) /\ v.value = Alias(u.value) => WordOf(v) = WordOf(u)

(* And those of a country, with the labels and the hints.                  *)
TellsCountry(u) ==
    \A v \in Covered :
        /\ v.native = u.native => v.value = u.value
        /\ u.value = v.native => v.native = u.native
        /\ u.value \in {v.label, v.hint} => v.value = u.value

ClearServices == {name \in {u.value : u \in Served} :
                     \A u \in Served : u.value = name => TellsService(u)}
ClearCountries == {name \in {u.value : u \in Covered} :
                      \A u \in Covered : u.value = name => TellsCountry(u)}

Asking == {c \in Callers : call[c].step \in Kinds}

(* What c sent is the word that its options have for what it asked for, if *)
(* that is one of the names.                                               *)
AsListed(c, services, countries) ==
    LET options == call[c].copy
        asked == call[c].asked
    IN  /\ asked.service \in services =>
               \A i \in DOMAIN options.services :
                   options.services[i].value = asked.service
                       => call[c].sent.service = WordOf(options.services[i])
        /\ asked.country \in countries =>
               \A i \in DOMAIN options.countries :
                   options.countries[i].value = asked.country
                       => call[c].sent.country = options.countries[i].native

(* What is listed is what is asked for: a service or a country that the    *)
(* options list by its name is asked for, through the aliases of the       *)
(* manifest, under the word the provider lists it with, in a price query   *)
(* as in an acquisition (translate_acquire_request, service.rs:4717, and   *)
(* get_prices, service.rs:2695), if its words tell it from the others and  *)
(* the options are those of a refresh since the service started.           *)
SentAsListed ==
    \A c \in Asking : ~call[c].loaded => AsListed(c, ClearServices, ClearCountries)

(* docs/api-integration.md:54 makes no exception for options that were     *)
(* read from the file when the service started; these list a service under *)
(* its name as if the name were the provider's word.                       *)
LoadedSentAsListed == \A c \in Asking : AsListed(c, ClearServices, ClearCountries)

(* Nor for a service whose name is the provider's word for another: the    *)
(* word wins over the name (service.rs:4729).                              *)
AnySentAsListed == \A c \in Asking : ~call[c].loaded => AsListed(c, Words, Words)

(* An answer bears the names it was asked for by, whatever the provider    *)
(* calls them, if their words tell them from the others.  A ticket keeps   *)
(* them, whichever options were cached and after a restart                 *)
(* (normalize_ticket_record, options.rs:405, and normalize_runtime_ticket, *)
(* service.rs:4826); the prices of a country bear its name if the options  *)
(* of the query listed it (normalize_price_items, options.rs:362).         *)
AnswersBearTheNames ==
    /\ \A t \in tickets :
        /\ t.asked.service \in ClearServices => t.service = t.asked.service
        /\ t.asked.country \in ClearCountries => t.country = t.asked.country
    /\ \A c \in Callers :
        call[c].step = "priced" /\ call[c].listed /\ call[c].asked \in ClearCountries
            => call[c].country = call[c].asked

(* A restart shows the options that the file holds: naming them once more  *)
(* changes no name, no label and no word of the provider                   *)
(* (normalize_loaded_provider_options, options.rs:113).                    *)
Shown(options) ==
    [services |-> options.services, countries |-> options.countries,
     operators |-> options.operators,
     byCountry |-> [key \in DOMAIN options.byCountry |-> options.byCountry[key].items]]
LoadingChangesNoName == saved # Absent => Shown(Loaded(saved)) = Shown(saved)
-----------------------------------------------------------------------------
(* When naming is stable.  LabelsTell is about the tables: a name, and the *)
(* label it is shown with, are words for that name and for no other.       *)
(* The audits of options.rs:1341-1504 look for names that go astray.       *)
AliasNames == {FirstIn(Aliases, {b \in ToSet(Aliases) : b.native = a.native}, a).name :
                  a \in ToSet(Aliases)}

PatternNames == {p.name : p \in ToSet(Patterns)}

ServicesTell ==
    /\ DOMAIN ServiceLabels \subseteq PatternNames
    /\ \A p \in ToSet(Patterns) :
        /\ \A name \in AliasNames \cup PatternNames : name \in p.words => name = p.name
        /\ \A name \in DOMAIN ServiceLabels :
               (name = p.name) <=> (ServiceLabels[name] \in p.words)

(* A label need not be an alias: that of the Aaland Islands is spelt with  *)
(* a letter that the aliases do not have.                                  *)
CountriesTell ==
    /\ \A name \in DOMAIN CountryLabels :
           LET label == CountryLabels[name]
           IN  IF label \in DOMAIN CountryAliases THEN CountryAliases[label] = name
               ELSE \A t \in ToSet(TextAliases) : label \notin t.words
    /\ \A word \in DOMAIN CountryAliases : CountryAliases[word] \in DOMAIN CountryLabels
    /\ \A t \in ToSet(TextAliases) : t.name \in DOMAIN CountryLabels \/ t.name \in t.words
    /\ \A name \in DOMAIN CountryLabels \cup {t.name : t \in ToSet(TextAliases)} :
           /\ name \in DOMAIN CountryAliases => CountryAliases[name] = name
           /\ \A t \in ToSet(TextAliases) : name \in t.words => name = t.name

(* A country whose label is no alias is listed by a word that is one, or   *)
(* by its code with a hint that no table has.                              *)
KnownByWord(item) ==
    \/ RawValue(item) \in DOMAIN CountryAliases \ Numeric
    \/ /\ RawValue(item) \in Codes /\ RawValue(item) = NamedCountry(item).value
       /\ item.hint \notin DOMAIN CountryAliases
       /\ \A t \in ToSet(TextAliases) : item.hint \notin t.words

(* And a country under a word that is a name in a label only has a label.  *)
CountriesLabelled ==
    \A item \in GivenCountries :
        /\ \A t \in ToSet(TextAliases) :
               RawValue(item) \in t.words \ DOMAIN CountryAliases =>
                   RawValue(item) \notin Codes /\ item.label \in Words \ Numeric
        /\ LET name == NamedCountry(item).value
           IN  name \in DOMAIN CountryLabels
                   => CountryLabels[name] \in DOMAIN CountryAliases \/ KnownByWord(item)

LabelsTell == ServicesTell /\ CountriesTell /\ CountriesLabelled
=============================================================================
