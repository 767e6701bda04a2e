SPECIFICATION TelemetrySpec
CONSTANTS
    Capacity = 2
    SampleWait = 1
    PingWait = 4
    Pings = 2
    RetryWait = 1
    SockTimeout = 1
    KeepAlive = 5
    StaleAt = 25
    MaxAge = 26
PROPERTY
    PublishesLatest
