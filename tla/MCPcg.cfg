SPECIFICATION SpecPcg
CONSTANT Cases <- MCCases
INVARIANTS TypeOK FullPeriod EquallyOften
