CONSTANTS
  MaxFailures = 22
  Techniques = {"T1110", "T1068", "T1078"}
  Configured = {"virustotal", "greynoise", "shodan"}
SPECIFICATION Spec
INVARIANTS OnlyNotifyRunsAlone ShodanNeverConvicts NeverAveragedAway
PROPERTIES SeverityMonotone TierMonotone
CHECK_DEADLOCK FALSE
