-------------------------- MODULE MCRecordingStream --------------------------
EXTENDS RecordingStream

CONSTANTS t, u, i

\* Two threads that log, each with its own operations on the sink.
MCScenarios == {
    t :> {"record_row", "set_sink", "drop"}
      @@ u :> {"record_row", "flush", "disconnect"},
    t :> {"record_row", "record_msg", "set_sink"}
      @@ u :> {"record_row", "finalize_deferred_sinks", "inspect_sink"},
    t :> {"record_row", "flush", "log_file", "drop"}
      @@ u :> {"record_row", "flush", "drop"}}
=============================================================================
