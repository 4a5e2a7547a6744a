--------------------------- MODULE MCProviderNames ---------------------------
(* Values for the model-checked instance of ProviderNames: a provider that *)
(* lists a service with an alias of the manifest and some without, a       *)
(* country by a number and some by words.                                  *)
EXTENDS ProviderNames, TLC

AnyClient == Permutations(Callers)

Alphabet == <<"12", "16", "358", "380", "44", "aaland islands", "aland islands", "any",
              "any operator", "ax", "blw", "bp", "chatgpt", "dr", "england", "gb",
              "gofundme", "kyivstar", "openai", "openai (gpt)", "ua", "ukraine",
              "united kingdom", "vodafone">>
PlaceOf == [w \in Range(Alphabet) |-> CHOOSE i \in DOMAIN Alphabet : Alphabet[i] = w]

PatternTable == <<[name |-> "openai", words |-> {"openai", "chatgpt", "dr", "openai (gpt)"}]>>
AliasTable == <<[name |-> "openai", native |-> "dr"], [name |-> "chatgpt", native |-> "dr"]>>
ServiceLabelTable == ("openai" :> "openai (gpt)")
CountryAliasTable == ("ukraine" :> "ua") @@ ("united kingdom" :> "gb") @@ ("england" :> "gb")
                     @@ ("aland islands" :> "ax")
TextAliasTable == <<[name |-> "gb", words |-> {"england"}]>>
CountryLabelTable == ("ua" :> "ukraine") @@ ("gb" :> "united kingdom")
                     @@ ("ax" :> "aaland islands")

Item(value, label, hint) == [value |-> value, label |-> label, hint |-> hint, native |-> value]

Ukraine == Item("12", "ukraine", "380")
Britain == Item("16", "united kingdom", "44")
England == Item("england", "england", "44")
Aland == Item("ax", "aland islands", "358")
OpenAI == Item("dr", "chatgpt", Absent)

(* The provider lists a service by a word that is the name of another, as  *)
(* the list of config/provider-options-raw.json does; then it renames a    *)
(* country and lists no service.                                           *)
TwoCatalogues == {
    [services |-> <<OpenAI, Item("bp", "gofundme", Absent), Item("blw", "bp", Absent)>>,
     countries |-> <<Ukraine, Britain>>,
     operators |-> ("12" :> <<Item("kyivstar", "kyivstar", Absent)>>)
                   @@ ("16" :> <<Item("vodafone", "vodafone", Absent),
                                 Item("any", "any operator", Absent)>>)],
    [services |-> <<>>,
     countries |-> <<England, Aland>>,
     operators |-> ("england" :> <<>>)]}

(* One for a service that has an alias, in a country by a word of the      *)
(* provider, one for a service that has none, and one for the defaults.    *)
ThreeRequests == {[service |-> "openai", country |-> "england", operator |-> Absent],
                  [service |-> "gofundme", country |-> "ua", operator |-> "any"],
                  [service |-> Absent, country |-> Absent, operator |-> Absent]}

(* A service by a name that is also the word of another.                   *)
UnclearRequest == {[service |-> "bp", country |-> "gb", operator |-> Absent]}

(* Naming is stable for these tables, and the words of this provider tell  *)
(* all of its names from each other but the one.                           *)
ASSUME /\ LabelsTell
       /\ ClearServices = {"openai", "gofundme"}
       /\ ClearCountries = {"ua", "gb", "ax"}
=============================================================================
