CONSTANTS
    shodan_stream = shodan_stream
    shodan = shodan
    Polled = {usgs}
    Streamed = {bgp}
    Label <- MCLabel
    PollGivesUp = 3
    StreamGivesUp = 3
    BusSize = 2
    MaxStarts = 2
SPECIFICATION RegistrySpec
INVARIANT StatusHonest
PROPERTIES HealthyOnce KeepsGoing
CHECK_DEADLOCK FALSE
