----------------------------- MODULE ReferenceData -----------------------------
(***************************************************************************)
(* The EdgeFinder reference data: indicators by country, the rule each is  *)
(* scored by, which indicators an asset is made of and with what sign, and *)
(* the rows a currency pair is compared on.                                *)
(***************************************************************************)
EXTENDS Integers, FiniteSets

Currencies == {"USD", "EUR", "GBP", "JPY", "AUD"}
Indices    == {"SPY", "NAS100", "US30"}

(* [base, quote, isCarryPair].                                              *)
Pair(base, quote, carry) == [base |-> base, quote |-> quote, isCarryPair |-> carry]
Pairs ==
  {Pair("EUR", "USD", FALSE), Pair("GBP", "USD", FALSE), Pair("AUD", "USD", FALSE),
   Pair("EUR", "AUD", FALSE), Pair("GBP", "AUD", FALSE), Pair("USD", "JPY", FALSE),
   Pair("EUR", "JPY", TRUE), Pair("GBP", "JPY", TRUE), Pair("AUD", "JPY", TRUE)}
-------------------------------------------------------------------------------
US_CODES ==
  {"US_GDP_QOQ", "US_ISM_MFG", "US_ISM_SVC", "US_RETAIL_MOM", "US_CB_CONSCONF", "US_CPI_YOY",
   "US_PPI_MOM", "US_PCE_YOY", "US_02Y_SMA", "US_NFP", "US_UNEMP", "US_JOBLESS_CLAIMS",
   "US_ADP", "US_JOLTS", "US_FED_RATE"}
EU_CODES ==
  {"EU_GDP_QOQ", "EU_MFG_PMI", "EU_SVC_PMI", "EU_RETAIL_MOM", "EU_CCI", "EU_CPI_YOY",
   "EU_PPI_MOM", "EU_UNEMP", "EU_ECB_RATE"}
UK_CODES ==
  {"UK_GDP_MOM", "UK_MFG_PMI", "UK_SVC_PMI", "UK_RETAIL_MOM", "UK_GFK", "UK_CPI_YOY",
   "UK_PPI_MOM", "UK_UNEMP", "UK_BOE_RATE"}
JP_CODES ==
  {"JP_GDP_QOQ", "JP_MFG_PMI", "JP_SVC_PMI", "JP_RETAIL_YOY", "JP_CONSCONF", "JP_CPI_YOY",
   "JP_PPI_YOY", "JP_HSHLD_SPEND", "JP_UNEMP", "JP_BOJ_RATE", "JP_CASH_EARNINGS_YOY",
   "JP_TOKYO_CPI_YOY"}
AU_CODES ==
  {"AU_GDP_QOQ", "AU_PMI_MFG", "AU_PMI_SVC", "AU_MHSI_MOM", "AU_CONSCONF", "AU_CPI_YOY",
   "AU_PPI_YOY", "AU_UNEMPLOYMENT", "AU_EMPLOYMENT_CHANGE", "AU_RBA_RATE"}
CN_CODES == {"CN_CAIXIN_PMI_MFG"}

COT_CODES ==
  [USD |-> "USD_COT", EUR |-> "EUR_COT", GBP |-> "GBP_COT", JPY |-> "JPY_COT",
   AUD |-> "AUD_COT", XAUUSD |-> "XAUUSD_COT", SPY |-> "SPY_COT", NAS100 |-> "NAS100_COT",
   US30 |-> "US30_COT"]

(* ruleForIndicator: the codes of each rule type; every other is normal.    *)
rateDecisionCodes == {"US_FED_RATE", "EU_ECB_RATE", "UK_BOE_RATE", "JP_BOJ_RATE", "AU_RBA_RATE"}
invertedCodes ==
  {"US_UNEMP", "EU_UNEMP", "UK_UNEMP", "JP_UNEMP", "US_JOBLESS_CLAIMS", "AU_UNEMPLOYMENT"}
RuleForIndicator(code) ==
  CASE code \in {COT_CODES[a] : a \in DOMAIN COT_CODES} -> "cot_two_component"
    [] code \in invertedCodes     -> "inverted"
    [] code = "US_02Y_SMA"        -> "us02y_sma"
    [] code \in rateDecisionCodes -> "rate_decision"
    [] OTHER                      -> "normal"
-------------------------------------------------------------------------------
(* asset_indicator_map without its COT rows: the sign of each indicator of  *)
(* an asset.                                                                *)
CountryDerived(codes, fundamentalPolarity) == [c \in codes |-> fundamentalPolarity]

INDEX_INDICATOR_POLARITY ==
  [c \in US_CODES |->
     IF c \in {"US_CPI_YOY", "US_PPI_MOM", "US_PCE_YOY", "US_02Y_SMA", "US_FED_RATE"}
       THEN -1 ELSE 1]

AssetIndicatorMap ==
  [USD |-> CountryDerived(US_CODES, 1), EUR |-> CountryDerived(EU_CODES, 1),
   GBP |-> CountryDerived(UK_CODES, 1), JPY |-> CountryDerived(JP_CODES, 1),
   AUD |-> CountryDerived(AU_CODES \cup CN_CODES, 1),
   XAUUSD |-> CountryDerived(US_CODES, -1),
   SPY |-> INDEX_INDICATOR_POLARITY, NAS100 |-> INDEX_INDICATOR_POLARITY,
   US30 |-> INDEX_INDICATOR_POLARITY]
-------------------------------------------------------------------------------
(* A template row: its treatment and the indicator of each currency in it.  *)
Row(treatment, indicators) == [treatment |-> treatment, indicators |-> indicators]
Bilateral(usd, eur, gbp, jpy, aud) ==
  Row("BILATERAL", [USD |-> usd, EUR |-> eur, GBP |-> gbp, JPY |-> jpy, AUD |-> aud])

PairTemplate ==
  [GDP |-> Bilateral("US_GDP_QOQ", "EU_GDP_QOQ", "UK_GDP_MOM", "JP_GDP_QOQ", "AU_GDP_QOQ"),
   MFG_PMI |-> Bilateral("US_ISM_MFG", "EU_MFG_PMI", "UK_MFG_PMI", "JP_MFG_PMI", "AU_PMI_MFG"),
   SVC_PMI |-> Bilateral("US_ISM_SVC", "EU_SVC_PMI", "UK_SVC_PMI", "JP_SVC_PMI", "AU_PMI_SVC"),
   RETAIL |-> Bilateral("US_RETAIL_MOM", "EU_RETAIL_MOM", "UK_RETAIL_MOM", "JP_RETAIL_YOY",
                        "AU_MHSI_MOM"),
   CONSCONF |-> Bilateral("US_CB_CONSCONF", "EU_CCI", "UK_GFK", "JP_CONSCONF", "AU_CONSCONF"),
   CPI |-> Bilateral("US_CPI_YOY", "EU_CPI_YOY", "UK_CPI_YOY", "JP_CPI_YOY", "AU_CPI_YOY"),
   PPI |-> Bilateral("US_PPI_MOM", "EU_PPI_MOM", "UK_PPI_MOM", "JP_PPI_YOY", "AU_PPI_YOY"),
   UNEMP |-> Bilateral("US_UNEMP", "EU_UNEMP", "UK_UNEMP", "JP_UNEMP", "AU_UNEMPLOYMENT"),
   RATES |-> [Bilateral("US_FED_RATE", "EU_ECB_RATE", "UK_BOE_RATE", "JP_BOJ_RATE", "AU_RBA_RATE")
                EXCEPT !.treatment = "RATES_BILATERAL"],
   PCE |-> Row("USD_ONLY", [USD |-> "US_PCE_YOY"]),
   NFP_EMPL |-> Row("USD_ONLY", [USD |-> "US_NFP"]),
   JOBLESS |-> Row("USD_ONLY", [USD |-> "US_JOBLESS_CLAIMS"]),
   JOLTS |-> Row("USD_ONLY", [USD |-> "US_JOLTS"]),
   ADP |-> Row("USD_ONLY", [USD |-> "US_ADP"]),
   HSHLD_SPEND |-> Row("JPY_ONLY", [JPY |-> "JP_HSHLD_SPEND"]),
   CASH_EARNINGS |-> Row("JPY_ONLY", [JPY |-> "JP_CASH_EARNINGS_YOY"]),
   TOKYO_CPI |-> Row("JPY_ONLY", [JPY |-> "JP_TOKYO_CPI_YOY"]),
   AU_EMPL |-> Row("AUD_ONLY", [AUD |-> "AU_EMPLOYMENT_CHANGE"]),
   CN_CAIXIN |-> Row("AUD_ONLY", [AUD |-> "CN_CAIXIN_PMI_MFG"])]

(* The EdgeFinder rating thresholds, highest first.                         *)
RATING_THRESHOLDS ==
  <<[min |-> 4, max |-> 99, label |-> "Very Support"], [min |-> 3, max |-> 3, label |-> "Support"],
    [min |-> -2, max |-> 2, label |-> "Neutral"], [min |-> -3, max |-> -3, label |-> "Weak"],
    [min |-> -99, max |-> -4, label |-> "Very Weak"]>>
===============================================================================
