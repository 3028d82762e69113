-------------------------- MODULE MCAlinkSender ----------------------------
EXTENDS AlinkSender

\* Below the window of the score, within it, and above it.
MCSignals == {[rssi |-> -92, snr |-> 6], [rssi |-> -61, snr |-> 22],
              [rssi |-> -30, snr |-> 40]}
==============================================================================
