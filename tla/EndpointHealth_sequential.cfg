\* Two endpoints; the sweep reports and a query handler's outcomes are ignored.
CONSTANTS
    Endpoints = {e1, e2}
    Ticker = ticker
    Probers = {}
    Queriers = {q1}
    Rise = 2
    Fall = 2
    MaxRun = 3
    Bootstraps = TRUE
    Passive = FALSE
SPECIFICATION Spec
INVARIANTS VerdictSettled
PROPERTIES ImplementsHysteresis
