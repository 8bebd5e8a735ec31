CONSTANTS
  Cores = {1, 2}
  Loggers = {1}
  LoggerOf <- OneLogger
  g_perthread_buffers = 2
  BufferSize = 2
  MaxIovs = 1
  g_max_lag_epochs = 2
  MaxTick = 3
  MaxTxns <- OneBusy
SPECIFICATION LogSpec
INVARIANTS
  LogInOrder
  OneEpochPerBuffer
  CommitsAreLater
