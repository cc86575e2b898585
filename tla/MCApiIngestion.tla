--------------------------- MODULE MCApiIngestion ---------------------------
(* An instance of ApiIngestion for TLC: two promotions and a record that has *)
(* no promo_code, which a validate_record would reject.                      *)
EXTENDS ApiIngestion

Older   == [code |-> "PROMO-10", updated_at |-> 1]
Newer   == [code |-> "PROMO-11", updated_at |-> 2]
Keyless == [code |-> "", updated_at |-> 2]

MCRecords == {Older, Newer, Keyless}
MCInvalid == {Keyless}
=============================================================================
