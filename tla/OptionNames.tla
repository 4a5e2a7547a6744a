----------------------------- MODULE OptionNames -----------------------------
(***************************************************************************)
(* How the words of a provider become the names that all providers share,  *)
(* and back.  A provider lists its services, countries and operators under *)
(* words of its own; the service shows each under a canonical name and     *)
(* keeps the provider's word (provider_value) beside it.                   *)
(* Words are compared after normalize_token, so that a word here stands    *)
(* for all its spellings, and a name for the word it is spelled with.      *)
(* An absent word and an empty one are both Absent.                        *)
(***************************************************************************)
EXTENDS Naturals, Sequences, SequencesExt, Selections

CONSTANTS
    Absent,
    Position,         \* word -> its place in the alphabet
    Patterns,         \* <<[name, words]>>: the words that give a service away
    Aliases,          \* <<[name, native]>>: the manifest's service_aliases, the
                      \* preferred names first
    ServiceLabels,    \* name -> label, for the services with a label of their own
    CountryAliases,   \* word -> name: the aliases of country-metadata.json
    TextAliases,      \* <<[name, words]>>: CANONICAL_COUNTRY_TEXT_ALIASES, resolved
    CountryLabels,    \* name -> label, for the countries of country-metadata.json
    Codes,            \* words of two letters
    Numeric,          \* words of digits
    AnyWords,         \* words with "any" in them
    AnyName, AnyLabel \* the operator "any" and its label

Words == DOMAIN Position

(* Tables of words; the label of the operator "any" has "any" in it.       *)
ASSUME TablesAssumption ==
    /\ Absent \notin Words
    /\ \A w \in Words : Position[w] \in Nat
    /\ \A w, v \in Words : Position[w] = Position[v] => w = v
    /\ Patterns \in Seq([name : Words, words : SUBSET Words])
    /\ Aliases \in Seq([name : Words, native : Words])
    /\ TextAliases \in Seq([name : Words, words : SUBSET Words])
    /\ DOMAIN CountryAliases \subseteq Words
    /\ \A w \in DOMAIN CountryAliases : CountryAliases[w] \in Words
    /\ \A name \in DOMAIN ServiceLabels : ServiceLabels[name] \in Words
    /\ \A name \in DOMAIN CountryLabels : CountryLabels[name] \in Words
    /\ AnyName \in Words /\ AnyLabel \in Words \cap AnyWords

(* A provider's item has a value, a label, a hint and perhaps its own word *)
(* apart from the value; the label_zh and the icons are left out.          *)
(* Defect: an item that was named before loses the provider's word.        *)
ValueAgain(item) == item.value

RawValue(item) == IF item.native = Absent THEN item.value ELSE item.native

-----------------------------------------------------------------------------
(* Canonical names.                                                        *)

(* The entries of a table that one of the words gives away.                *)
Hits(table, words) == {entry \in ToSet(table) : entry.words \cap words # {}}

(* A pattern that the word or the label matches, else the label.           *)
ServiceKey(raw, label) ==
    FirstIn(Patterns, Hits(Patterns, {raw, label}),
            [name |-> IF label # Absent THEN label ELSE raw]).name

(* The manifest's alias for the word goes before.                          *)
ServiceName(raw, label) ==
    FirstIn(Aliases, {a \in ToSet(Aliases) : a.native = raw},
            [name |-> ServiceKey(raw, label)]).name

(* What is said in the place of a name: a number says nothing of itself,   *)
(* so that its hint and label are asked first.                             *)
CountryFallback(raw, label, hint) ==
    LET telling == Words \ (Numeric \cup {raw})
    IN  IF raw \in Codes THEN raw
        ELSE FirstIn(IF raw \in Numeric THEN <<hint, label>> ELSE <<label, hint>>,
                     telling, raw)

CountryName(raw, label, hint) ==
    LET alias == FirstIn(IF raw \in Numeric THEN <<label, hint, raw>>
                                            ELSE <<raw, label, hint>>,
                         DOMAIN CountryAliases, Absent)
    IN  IF alias # Absent THEN CountryAliases[alias]
        ELSE FirstIn(TextAliases, Hits(TextAliases, {label, hint}),
                     [name |-> CountryFallback(raw, label, hint)]).name

OperatorName(raw, label) == IF {raw, label} \cap AnyWords # {} THEN AnyName ELSE raw

CountryKey(country) == CountryName(country, country, Absent)

-----------------------------------------------------------------------------
(* Lists.  The first item of a name stays, and the list is in their order. *)
Values(items) == {items[i].value : i \in DOMAIN items}

Deduped(items) ==
    LET places == Ascending({Position[value] : value \in Values(items)})
        At(place) == {item \in ToSet(items) : Position[item.value] = place}
    IN  [n \in DOMAIN places |-> FirstIn(items, At(places[n]), Absent)]

NamedService(item) ==
    LET name == ServiceName(RawValue(item), item.label)
    IN  [item EXCEPT !.value = name,
                     !.native = RawValue(item),
                     !.label = IF name \in DOMAIN ServiceLabels THEN ServiceLabels[name]
                               ELSE IF item.label # Absent THEN item.label ELSE name]

NamedCountry(item) ==
    LET name == CountryName(RawValue(item), item.label, item.hint)
    IN  [item EXCEPT !.value = name,
                     !.native = RawValue(item),
                     !.label = IF name \in DOMAIN CountryLabels
                               THEN CountryLabels[name] ELSE name]

NamedOperator(item) ==
    LET name == OperatorName(RawValue(item), item.label)
    IN  [item EXCEPT !.value = name,
                     !.native = RawValue(item),
                     !.label = IF name = AnyName THEN AnyLabel
                               ELSE IF item.label # Absent THEN item.label ELSE name]

NamedServices(items) == Deduped([i \in DOMAIN items |-> NamedService(items[i])])
NamedCountries(items) == Deduped([i \in DOMAIN items |-> NamedCountry(items[i])])
NamedOperators(items) == Deduped([i \in DOMAIN items |-> NamedOperator(items[i])])

-----------------------------------------------------------------------------
(* Options of a provider: what the cache keeps.  Of the raw lists only the *)
(* values of the services are ever asked for again.                        *)
NoOptions == [rawServices |-> {}, services |-> <<>>, countries |-> <<>>,
              operators |-> <<>>, byCountry |-> <<>>]

(* The lists as the provider gave them become the options.                 *)
NamedEntry(entry) ==
    [raw |-> entry.raw,
     items |-> NamedOperators(IF entry.raw = <<>> THEN entry.items ELSE entry.raw),
     fresh |-> entry.fresh]

Normalized(services, countries, operators, byCountry) ==
    [rawServices |-> Values(services),
     services |-> NamedServices(services),
     countries |-> NamedCountries(countries),
     operators |-> NamedOperators(operators),
     byCountry |-> [key \in {CountryKey(c) : c \in DOMAIN byCountry} |->
         NamedEntry(byCountry[CHOOSE c \in DOMAIN byCountry : CountryKey(c) = key])]]

(* Options read from the file go through it once more: what was named is   *)
(* taken for what the provider listed.                                     *)
Loaded(options) ==
    Normalized(options.services, options.countries, options.operators,
               options.byCountry)

-----------------------------------------------------------------------------
(* From a name to the provider's word, and back.  What is in no list is    *)
(* taken for the word itself.                                              *)
Itself(word) == [value |-> word, native |-> Absent]

NativeOf(items, name) ==
    RawValue(FirstIn(items, {i \in ToSet(items) : i.value = name}, Itself(name)))

Alias(service) ==
    FirstIn(Aliases, {a \in ToSet(Aliases) : a.name = service}, [native |-> service]).native

(* A service of the provider's own words is sent as it is.                 *)
ServiceSent(options, service) ==
    IF Alias(service) \in options.rawServices
    THEN Alias(service)
    ELSE NativeOf(options.services, Alias(service))

(* A country may be asked for by any of its words.                         *)
CountryOption(countries, country) ==
    RawValue(FirstIn(countries,
                     {i \in ToSet(countries) : \/ i.value = CountryKey(country)
                                               \/ country \in {i.native, i.label, i.hint}},
                     Itself(country)))

(* The operators of the country, then those of the provider.               *)
OperatorItems(options, country) ==
    (CASE CountryKey(country) \in DOMAIN options.byCountry ->
              options.byCountry[CountryKey(country)].items
       [] country \in DOMAIN options.byCountry -> options.byCountry[country].items
       [] OTHER -> <<>>) \o options.operators

OperatorSent(options, operator, country) ==
    IF operator = Absent THEN Absent
    ELSE NativeOf(OperatorItems(options, country), operator)

NameOf(items, native, otherwise) ==
    FirstIn(items, {i \in ToSet(items) : i.native = native}, Itself(otherwise)).value

(* The names of a ticket that the provider gave under its own words.       *)
ServiceOf(options, native) ==
    NameOf(options.services, native, ServiceName(native, native))
CountryOf(options, native) ==
    NameOf(options.countries, native, CountryName(native, native, Absent))
OperatorOf(options, country, operator) ==
    NameOf(OperatorItems(options, country), operator, OperatorName(operator, operator))

(* A price goes through a map from the provider's words, where the last    *)
(* item of a word wins.                                                    *)
PriceCountry(options, native) ==
    NameOf(Reverse(options.countries), native, CountryName(native, native, Absent))
PriceOperator(options, native) ==
    NameOf(Reverse(options.operators), native, OperatorName(native, Absent))
=============================================================================
