------------------------------- MODULE RatesStorage ------------------------------
(***************************************************************************)
(* storage (src/src/rates_storage.hpp): the database of rates, a JSON      *)
(* object with a dictionary of currencies and the rates by date.  The      *)
(* members of an object are kept in the order of their names, and a date   *)
(* is found by the text of its key.  FetchLogic says when a response is    *)
(* added, saved and loaded; here is what is found afterwards.              *)
(***************************************************************************)
EXTENDS StrUtil, Functions

CONSTANTS RateDates,   (* days with rates: y, m, d                         *)
          Codes,       (* codes of currencies                              *)
          Rates,       (* rates, not zero                                  *)
          Responses,   (* what is added: sequences of records              *)
          MaxAdds      (* bound: responses in a behaviour                  *)

Dates == [y : 1970..9999, m : 1..12, d : 1..31]
Records == [cc : Codes, date : RateDates, rate : Rates]

ASSUME RatesStorageConstants ==
    /\ RateDates \subseteq Dates
    /\ Rates \subseteq Nat \ {0} /\ MaxAdds \in Nat
    /\ \A response \in Responses : response \in Seq(Records)

VARIABLES
    currencies,        (* the dictionary                                   *)
    rates,             (* key -> code -> rate                              *)
    coming,            (* the records that add has not yet come to         *)
    dataFile,          (* what the file is read as, NoData if it is not    *)
    given, filed,      (* history: the rates the two hold, by date         *)
    adds

rsVars == <<currencies, rates, coming, dataFile, given, filed, adds>>

Empty == [x \in {} |-> 0]
Nowhere == [x \in {} |-> Empty]
NoData == [currencies |-> {}, rates |-> Nowhere]

RsTypeOK == /\ currencies \subseteq Codes /\ coming \in Seq(Records) /\ adds \in 0..MaxAdds
            /\ \A k \in DOMAIN rates : Len(k) = 8 /\ DOMAIN rates[k] \subseteq Codes
                                       /\ Range(rates[k]) \subseteq Rates
            /\ DOMAIN given \subseteq RateDates /\ DOMAIN filed \subseteq RateDates

RsInit == /\ currencies = {} /\ rates = Nowhere /\ coming = <<>> /\ dataFile = NoData
          /\ given = Nowhere /\ filed = Nowhere /\ adds = 0

(* Faulty variant: months and days as they are, without zeros.             *)
UnpaddedKey(x) == Padded(x.y, 4) \o DigitsOf(x.m) \o DigitsOf(x.d)

(* dotted_date_to_yyyymmdd of a valid date (DateText).                     *)
DbDate(x) == Padded(x.y, 4) \o Padded(x.m, 2) \o Padded(x.d, 2)

(* operator[] of an object makes a member that is missing.                 *)
WithMember(f, k, v) == [x \in DOMAIN f \cup {k} |-> IF x = k THEN v ELSE f[x]]

AssignRate(f, k, code, rate) ==
    WithMember(f, k, WithMember(IF k \in DOMAIN f THEN f[k] ELSE Empty, code, rate))

(* add: the records of a response that is_valid_currencies_array accepts,  *)
(* one after the other; a currency that is not in the dictionary is put    *)
(* there.  Its caller has the database locked until it returns.            *)
AddResponse(response) ==
    /\ coming = <<>> /\ adds < MaxAdds
    /\ coming' = response /\ adds' = adds + 1
    /\ UNCHANGED <<currencies, rates, dataFile, given, filed>>

AddRecord ==
    LET rec == Head(coming)
    IN /\ coming # <<>> /\ coming' = Tail(coming)
       /\ currencies' = currencies \cup {rec.cc}
       /\ rates' = AssignRate(rates, DbDate(rec.date), rec.cc, rec.rate)
       /\ given' = AssignRate(given, rec.date, rec.cc, rec.rate)
       /\ UNCHANGED <<dataFile, filed, adds>>

SaveRates ==
    /\ coming = <<>>
    /\ dataFile' = [currencies |-> currencies, rates |-> rates]
    /\ filed' = given
    /\ UNCHANGED <<currencies, rates, coming, given, adds>>

(* load clears the database first, so that a file that cannot be read      *)
(* leaves it empty.                                                        *)
LoadRates ==
    /\ coming = <<>>
    /\ currencies' = dataFile.currencies /\ rates' = dataFile.rates
    /\ given' = filed
    /\ UNCHANGED <<coming, dataFile, filed, adds>>

(* The file is lost or damaged.                                            *)
LoseFile ==
    /\ dataFile' = NoData /\ filed' = Nowhere
    /\ UNCHANGED <<currencies, rates, coming, given, adds>>

RsNext == (\E response \in Responses : AddResponse(response)) \/ AddRecord \/ SaveRates \/ LoadRates \/ LoseFile

RsSpec == RsInit /\ [][RsNext]_rsVars

--------------------------------------------------------------------------------
(* The lookups; 0 if nothing is found.                                     *)
ValueIn(row, code) == IF code \in DOMAIN row THEN row[code] ELSE 0

(* The key of get_exchange_rate: setw holds for the next output only, so   *)
(* the day is written as it is.                                            *)
AskedKey(x) == Padded(x.y, 4) \o Padded(x.m, 2) \o DigitsOf(x.d)

GetExchangeRate(x, code) ==
    IF AskedKey(x) \in DOMAIN rates THEN ValueIn(rates[AskedKey(x)], code) ELSE 0

(* Texts in the order of std::map.                                         *)
Precedes(a, b) ==
    \E n \in 0..Len(b) - 1 :
      /\ n <= Len(a) /\ SubSeq(a, 1, n) = SubSeq(b, 1, n)
      /\ n = Len(a) \/ DigitValue(a[n + 1]) < DigitValue(b[n + 1])

(* get_actual_ex_rate: the member behind all others.                       *)
GetActualExRate(code) ==
    IF rates = Nowhere THEN 0
    ELSE LET newest == CHOOSE k \in DOMAIN rates : \A j \in DOMAIN rates : k = j \/ Precedes(j, k)
         IN ValueIn(rates[newest], code)

--------------------------------------------------------------------------------
(* Properties.                                                             *)

Given(x, code) == IF x \in DOMAIN given THEN ValueIn(given[x], code) ELSE 0
Day(x) == x.y * 372 + (x.m - 1) * 31 + x.d

(* The actual rate of a currency is that of the last day in the database,  *)
(* whatever the order in which the days were fetched (today's first, then  *)
(* the ones that had failed), and nothing if that day does not have it.    *)
ActualIsLatest ==
    \A code \in Codes :
      GetActualExRate(code) =
        IF given = Nowhere THEN 0
        ELSE Given(CHOOSE x \in DOMAIN given : \A z \in DOMAIN given : Day(z) <= Day(x), code)

(* A lookup never answers with the rate of another day or currency, nor    *)
(* with one that has been replaced; for days of two digits it finds what   *)
(* there is.                                                               *)
LookupIsRight ==
    \A x \in RateDates, code \in Codes :
      \/ GetExchangeRate(x, code) = Given(x, code)
      \/ x.d < 10 /\ GetExchangeRate(x, code) = 0

(* Both of them: a reader of the database gets what was stored.            *)
LookupsAreRight == ActualIsLatest /\ LookupIsRight

(* The days a table has rates for.                                         *)
DayKeys == [x \in RateDates |-> DbDate(x)]
HeldDays(table) == {x \in RateDates : DayKeys[x] \in DOMAIN table}

DaysKept == INSTANCE DayStore WITH
    Days <- RateDates, held <- HeldDays(rates), file <- HeldDays(dataFile.rates)

(* The database, whose days are texts, is a set of days: a record adds its *)
(* day and makes no other appear or go, what gets into the file is all of  *)
(* them, and if days go, then by a load, to exactly those of the file.     *)
StorageKeepsDays == DaysKept!DsSpec
================================================================================
